---------------------------- MODULE Spec2Model ----------------------------
(***************************************************************************)
(* ChimeKit/react: the URL safety validator (utils/safeUrl), the HTML      *)
(* sanitizer (utils/sanitizeHtml), the action validator                    *)
(* (utils/validateApiResponse), the link action buttons of Feed and        *)
(* MessageDetails, the client's token handling, and the state of the       *)
(* MessageDetails, Inbox and Feed components.                              *)
(*                                                                         *)
(* Strings are sequences of one-character strings.  Two characters that    *)
(* TLA+ cannot write are named: "SOH" is U+0001 and "NBSP" is U+00A0.      *)
(***************************************************************************)
EXTENDS Integers, Sequences, FiniteSets, Bags, TLC

VARIABLES
    env,        \* the execution context: window, location, document, DOMParser
    urlRaw,     \* the argument of normalizeSafeUrl and isSafeUrl
    urlRes,     \* what normalizeSafeUrl returned
    urlSafe,    \* what isSafeUrl returned
    htmlIn,     \* the argument of sanitizeHtml
    parsedBody,   \* the content of the body the HTML parser builds for htmlIn
    htmlRes,    \* what sanitizeHtml returned
    htmlRes2,   \* what sanitizing the returned markup again returned
    message,    \* the actions of the message that FeedMessage renders
    result,     \* the actions of the result of client.getMessage
    detailsData, \* the data state of MessageDetails, null until it is loaded
    lastNav,    \* the last click or call and what it did to the browser
    objects,    \* the heap: the fields of each response object, by reference
    valInput,   \* the argument of validateMessageDetailsResponse and of
                \* sanitizeMessageDetailsResponse
    valRes,     \* what validateMessageDetailsResponse returned
    actInput,   \* the argument of the action validation
    actRes,     \* what the action validation returned
    sanRes,     \* what sanitizeMessageDetailsResponse returned
    tokenManager, \* options.tokenManager of the member client
    onAuthError,  \* whether options.onAuthError is given
    requests,     \* the calls of request of the member client
    inbox,         \* what client.getMessage resolves with, by message id
    mounted,       \* whether MessageDetails is mounted
    props,         \* the props of MessageDetails
    isLoading,     \* the isLoading state of MessageDetails
    errorMessage,  \* the errorMessage state of MessageDetails
    effectPending, \* a render has changed the deps of the fetch effect
    fetches,       \* the runs of fetchDetails, each with its isMounted
    inboxProps,         \* the props of Inbox: variant and bellProps
    isOpen,             \* the isOpen state of Inbox
    preferencesDisplay, \* the preferencesDisplay state of Inbox
    messageDetails,     \* the messageDetails state of Inbox
    meta,               \* the meta state of Inbox, not loaded until getMeta resolves
    derivedMeta,        \* the derivedMeta state of Inbox
    isMetaLoading,      \* the isMetaLoading state of Inbox
    metaFetches,        \* the calls of client.getMeta, each with its isMounted
    changedDeps,        \* the effect dependencies the last renders changed
    lastEvent,          \* the last event that Inbox handled
    feedMounted,        \* whether the Feed is mounted
    feedType,           \* the type prop of the Feed
    stateByFilter,      \* the stateByFilter state of the Feed
    listCalls,          \* the calls of client.listInbox that have not settled, a bag
         \* the call of markRead, markUnread, archive or
                        \* unarchive that has not settled
    feedEvent           \* the message action the last step applied, if any

urlVars == <<urlRaw, urlRes, urlSafe>>
htmlVars == <<htmlIn, parsedBody, htmlRes, htmlRes2>>
navVars == <<message, result, detailsData, lastNav>>
valVars == <<objects, valInput, valRes, actInput, actRes, sanRes>>
clientVars == <<tokenManager, onAuthError, requests>>
detailsVars ==
    <<inbox, mounted, props, isLoading, errorMessage, effectPending, fetches>>
inboxVars ==
    <<inboxProps, isOpen, preferencesDisplay, messageDetails, meta, derivedMeta,
      isMetaLoading, metaFetches, changedDeps, lastEvent>>
feedVars ==
    <<feedMounted, feedType, stateByFilter, listCalls, feedEvent>>
vars ==
    <<env, urlVars, htmlVars, navVars, valVars, clientVars, detailsVars, inboxVars,
      feedVars>>

-----------------------------------------------------------------------------
(* Bounds *)

\* longest run of padding characters put before and after a URL input
MaxPad == 1
\* most nodes in a parsed document
MaxNodes == 3
\* most attributes on the element of a one-element document
MaxAttrs == 3
\* the calls of request that are in progress together
MaxRequests == 2
\* the runs of fetchDetails of one MessageDetails
MaxFetches == 2
\* the calls of client.getMeta of one Inbox
MaxMetaFetches == 3
\* the calls of handleLoadMore for one filter key that are pending together
MaxPendingMore == 2

-----------------------------------------------------------------------------
(* Characters and strings *)

UpperChars == <<"A","B","C","D","E","F","G","H","I","J","K","L","M",
                "N","O","P","Q","R","S","T","U","V","W","X","Y","Z">>
LowerChars == <<"a","b","c","d","e","f","g","h","i","j","k","l","m",
                "n","o","p","q","r","s","t","u","v","w","x","y","z">>

Range(s) == {s[i] : i \in 1..Len(s)}

IsUpper(c) == c \in Range(UpperChars)
IsLower(c) == c \in Range(LowerChars)
IsAlpha(c) == IsUpper(c) \/ IsLower(c)
IsDigit(c) == c \in {"0","1","2","3","4","5","6","7","8","9"}

\* String.prototype.toLowerCase, one character
ToLowerChar(c) ==
    IF IsUpper(c) THEN LowerChars[CHOOSE i \in 1..26 : UpperChars[i] = c] ELSE c

ToLower(s) == [i \in 1..Len(s) |-> ToLowerChar(s[i])]

StartsWith(s, p) == Len(s) >= Len(p) /\ SubSeq(s, 1, Len(p)) = p

Contains(s, p) ==
    \E i \in 1..(Len(s) - Len(p) + 1) : SubSeq(s, i, i + Len(p) - 1) = p

DropFirst(s, n) == SubSeq(s, n + 1, Len(s))

RECURSIVE Concat(_)
Concat(ss) == IF ss = <<>> THEN <<>> ELSE Head(ss) \o Concat(Tail(ss))

\* WhiteSpace and LineTerminator of ECMAScript: what trim() strips and \s matches
JsWhitespace == {" ", "\t", "\n", "\r", "\f", "NBSP"}

RECURSIVE TrimStart(_)
TrimStart(s) ==
    IF s # <<>> /\ Head(s) \in JsWhitespace THEN TrimStart(Tail(s)) ELSE s

RECURSIVE TrimEnd(_)
TrimEnd(s) ==
    IF s # <<>> /\ s[Len(s)] \in JsWhitespace
    THEN TrimEnd(SubSeq(s, 1, Len(s) - 1)) ELSE s

\* String.prototype.trim
Trim(s) == TrimEnd(TrimStart(s))

-----------------------------------------------------------------------------
(* new URL(value, base): the scheme and the failures of the URL parser     *)

\* C0 control or space: stripped from both ends of the parser's input
C0OrSpace == {" ", "\t", "\n", "\r", "\f", "SOH"}
\* ASCII tab or newline: removed from anywhere in the parser's input
TabOrNewline == {"\t", "\n", "\r"}
\* forbidden domain code points (special schemes) and forbidden host code
\* points (opaque hosts) among the characters of the model
ForbiddenHost(special) ==
    IF special THEN {" ", "\f", "SOH", "<", ">", "NBSP"} ELSE {" ", "<", ">"}
SpecialSchemes == {<<"h","t","t","p">>, <<"h","t","t","p","s">>,
                   <<"f","t","p">>, <<"w","s">>, <<"w","s","s">>,
                   <<"f","i","l","e">>}
FileScheme == <<"f","i","l","e">>

RECURSIVE StripC0Start(_)
StripC0Start(s) ==
    IF s # <<>> /\ Head(s) \in C0OrSpace THEN StripC0Start(Tail(s)) ELSE s

RECURSIVE StripC0End(_)
StripC0End(s) ==
    IF s # <<>> /\ s[Len(s)] \in C0OrSpace
    THEN StripC0End(SubSeq(s, 1, Len(s) - 1)) ELSE s

UrlInputPrepare(s) ==
    SelectSeq(StripC0End(StripC0Start(s)), LAMBDA c : c \notin TabOrNewline)

\* scheme start state and scheme state: the index of the ":" that ends a
\* scheme, or 0 when the input has no scheme
SchemeEnd(s) ==
    IF s = <<>> \/ ~IsAlpha(s[1]) THEN 0
    ELSE LET stop == {i \in 1..Len(s) :
                        ~(IsAlpha(s[i]) \/ IsDigit(s[i]) \/ s[i] \in {"+", "-", "."})}
         IN  IF stop = {} THEN 0
             ELSE LET i == CHOOSE j \in stop : \A k \in stop : j <= k
                  IN  IF s[i] = ":" THEN i ELSE 0

RECURSIVE SkipSlashes(_)
SkipSlashes(s) ==
    IF s # <<>> /\ Head(s) = "/" THEN SkipSlashes(Tail(s)) ELSE s

\* the part of s before the first character of stops
UpTo(s, stops) ==
    LET at == {i \in 1..Len(s) : s[i] \in stops}
    IN  IF at = {} THEN s
        ELSE SubSeq(s, 1, (CHOOSE j \in at : \A k \in at : j <= k) - 1)

\* authority state, host state and port state on the text after the slashes
HostOk(s, special) ==
    LET auth == UpTo(s, {"/", "?", "#"})
        host == UpTo(auth, {":"})
        hasPort == Len(host) < Len(auth)
        port == IF hasPort THEN DropFirst(auth, Len(host) + 1) ELSE <<>>
    IN  /\ ~(hasPort /\ host = <<>>)
        /\ ~(special /\ host = <<>>)
        /\ \A i \in 1..Len(host) : host[i] \notin ForbiddenHost(special)
        /\ \A i \in 1..Len(port) : IsDigit(port[i])

NoBase == [failure |-> TRUE, scheme |-> <<>>, opaque |-> FALSE]
UrlFailure == [failure |-> TRUE, scheme |-> <<>>, opaque |-> FALSE]
UrlRecord(scheme, opaque) == [failure |-> FALSE, scheme |-> scheme, opaque |-> opaque]

\* the basic URL parser; base is a parsed URL or NoBase
BasicUrlParse(input, base) ==
    LET s == UrlInputPrepare(input)
        e == SchemeEnd(s)
    IN  IF e > 0
        THEN LET scheme == ToLower(SubSeq(s, 1, e - 1))
                 rest == DropFirst(s, e)
             IN  IF scheme = FileScheme THEN UrlRecord(scheme, FALSE)
                 ELSE IF scheme \in SpecialSchemes
                 THEN IF ~base.failure /\ base.scheme = scheme
                         /\ ~StartsWith(rest, <<"/", "/">>)
                      THEN UrlRecord(scheme, FALSE)
                      ELSE IF HostOk(SkipSlashes(rest), TRUE)
                           THEN UrlRecord(scheme, FALSE) ELSE UrlFailure
                 ELSE IF StartsWith(rest, <<"/", "/">>)
                      THEN IF HostOk(DropFirst(rest, 2), FALSE)
                           THEN UrlRecord(scheme, FALSE) ELSE UrlFailure
                      ELSE UrlRecord(scheme, ~StartsWith(rest, <<"/">>))
        ELSE IF base.failure THEN UrlFailure
        ELSE IF base.opaque
             THEN IF StartsWith(s, <<"#">>)
                  THEN UrlRecord(base.scheme, TRUE) ELSE UrlFailure
        ELSE IF base.scheme = FileScheme THEN UrlRecord(FileScheme, FALSE)
        ELSE IF StartsWith(s, <<"/", "/">>)
             THEN IF base.scheme \in SpecialSchemes
                  THEN IF HostOk(SkipSlashes(s), TRUE)
                       THEN UrlRecord(base.scheme, FALSE) ELSE UrlFailure
                  ELSE IF HostOk(DropFirst(s, 2), FALSE)
                       THEN UrlRecord(base.scheme, FALSE) ELSE UrlFailure
        ELSE UrlRecord(base.scheme, FALSE)

\* new URL(value, base): throws a TypeError when the base or the value fails
NewURL(value, base) ==
    LET b == BasicUrlParse(base, NoBase)
    IN  IF b.failure THEN UrlFailure ELSE BasicUrlParse(value, b)

\* URL.prototype.protocol
Protocol(url) == url.scheme \o <<":">>

-----------------------------------------------------------------------------
(* utils/safeUrl *)

SAFE_PROTOCOLS == {<<"h","t","t","p",":">>, <<"h","t","t","p","s",":">>,
                   <<"m","a","i","l","t","o",":">>, <<"t","e","l",":">>}
FALLBACK_BASE == <<"h","t","t","p",":","/","/","l","o","c","a","l","h","o","s","t">>

UrlNull == [threw |-> FALSE, null |-> TRUE, value |-> <<>>]
UrlValue(v) == [threw |-> FALSE, null |-> FALSE, value |-> v]
UrlUnset == [threw |-> FALSE, null |-> TRUE, value |-> <<"unset">>]

\* normalizeSafeUrl returning the argument instead of the trimmed value
normalizeSafeUrl_untrimmed(raw, e) ==
    LET value == Trim(raw)
        base == IF e.hasWindow /\ e.hasLocation THEN e.href ELSE FALLBACK_BASE
        parsed == NewURL(value, base)
    IN  IF value = <<>> THEN UrlNull
        ELSE IF StartsWith(value, <<"#">>) THEN UrlValue(raw)
        ELSE IF parsed.failure THEN UrlNull
        ELSE IF Protocol(parsed) \notin SAFE_PROTOCOLS THEN UrlNull
        ELSE UrlValue(raw)

normalizeSafeUrl(raw, e) ==
    LET value == Trim(raw)
        base == IF e.hasWindow /\ e.hasLocation THEN e.href ELSE FALLBACK_BASE
        parsed == NewURL(value, base)
    IN  IF value = <<>> THEN UrlNull
        ELSE IF StartsWith(value, <<"#">>) THEN UrlValue(value)
        ELSE IF parsed.failure THEN UrlNull
        ELSE IF Protocol(parsed) \notin SAFE_PROTOCOLS THEN UrlNull
        ELSE UrlValue(value)

isSafeUrl(raw, e) == ~normalizeSafeUrl(raw, e).null

-----------------------------------------------------------------------------
(* utils/sanitizeHtml: the DOM *)

\* String.prototype.toUpperCase, one character
ToUpperChar(c) ==
    IF IsLower(c) THEN UpperChars[CHOOSE i \in 1..26 : LowerChars[i] = c] ELSE c

ToUpper(s) == [i \in 1..Len(s) |-> ToUpperChar(s[i])]

TextNode(data) == [kind |-> "text", data |-> data]
CommentNode(data) == [kind |-> "comment", data |-> data]
Attr(name, value) == [name |-> name, value |-> value]
ElementNode(ns, localName, attrs, children) ==
    [kind |-> "element", ns |-> ns, localName |-> localName,
     attrs |-> attrs, children |-> children]

\* Element.tagName: upper-cased for an HTML element of an HTML document,
\* as written for an element in the SVG namespace
TagName(el) == IF el.ns = "html" THEN ToUpper(el.localName) ELSE el.localName

RECURSIVE textContent(_)
\* the data of the Text children only
textContent_ownText(node) ==
    IF node.kind = "text" THEN node.data
    ELSE IF node.kind = "comment" THEN <<>>
    ELSE Concat([i \in 1..Len(node.children) |->
            IF node.children[i].kind = "text" THEN node.children[i].data ELSE <<>>])

\* Node.textContent of an element: the data of its Text descendants, in
\* tree order (comments are not part of it)
textContent(node) ==
    IF node.kind = "text" THEN node.data
    ELSE IF node.kind = "comment" THEN <<>>
    ELSE Concat([i \in 1..Len(node.children) |-> textContent(node.children[i])])

HasAttribute(attrs, name) == \E i \in 1..Len(attrs) : attrs[i].name = name

\* Element.getAttribute, for an attribute that is present
GetAttribute(attrs, name) ==
    attrs[CHOOSE i \in 1..Len(attrs) : attrs[i].name = name].value

\* Element.setAttribute: the value is replaced in place, a new attribute
\* is added after the others
SetAttribute(attrs, name, value) ==
    IF HasAttribute(attrs, name)
    THEN [i \in 1..Len(attrs) |->
            IF attrs[i].name = name THEN Attr(name, value) ELSE attrs[i]]
    ELSE Append(attrs, Attr(name, value))

\* elements the fragment serializer writes without children and end tag
VoidElements == {<<"a","r","e","a">>, <<"b","a","s","e">>, <<"b","r">>, <<"c","o","l">>, <<"e","m","b","e","d">>, <<"h","r">>,
                 <<"i","m","g">>, <<"i","n","p","u","t">>, <<"l","i","n","k">>, <<"m","e","t","a">>, <<"s","o","u","r","c","e">>,
                 <<"t","r","a","c","k">>, <<"w","b","r">>}
\* elements whose text children the fragment serializer writes unescaped
RawTextElements == {<<"s","t","y","l","e">>, <<"s","c","r","i","p","t">>, <<"x","m","p">>, <<"i","f","r","a","m","e">>,
                    <<"n","o","e","m","b","e","d">>, <<"n","o","f","r","a","m","e","s">>, <<"p","l","a","i","n","t","e","x","t">>}

\* escaping a string of a text node or of an attribute value
EscapeString(s, attributeMode, angleInAttr) ==
    Concat([i \in 1..Len(s) |->
        IF s[i] = "&" THEN <<"&","a","m","p",";">>
        ELSE IF s[i] = "NBSP" THEN <<"&","n","b","s","p",";">>
        ELSE IF attributeMode /\ s[i] = "\"" THEN <<"&","q","u","o","t",";">>
        ELSE IF s[i] = "<" /\ (~attributeMode \/ angleInAttr) THEN <<"&","l","t",";">>
        ELSE IF s[i] = ">" /\ (~attributeMode \/ angleInAttr) THEN <<"&","g","t",";">>
        ELSE <<s[i]>>])

SerializeAttrs(attrs, angleInAttr) ==
    Concat([i \in 1..Len(attrs) |->
        <<" ">> \o attrs[i].name \o <<"=", "\"">>
            \o EscapeString(attrs[i].value, TRUE, angleInAttr) \o <<"\"">>])

RECURSIVE SerializeChildren(_, _)
\* the HTML fragment serialization algorithm on the children of a node
SerializeChildren(node, angleInAttr) ==
    Concat([i \in 1..Len(node.children) |->
        LET c == node.children[i]
        IN  IF c.kind = "text"
            THEN IF node.ns = "html" /\ node.localName \in RawTextElements
                 THEN c.data ELSE EscapeString(c.data, FALSE, angleInAttr)
            ELSE IF c.kind = "comment"
            THEN <<"<","!","-","-">> \o c.data \o <<"-","-",">">>
            ELSE <<"<">> \o c.localName \o SerializeAttrs(c.attrs, angleInAttr)
                 \o <<">">>
                 \o IF c.ns = "html" /\ c.localName \in VoidElements THEN <<>>
                    ELSE SerializeChildren(c, angleInAttr)
                         \o <<"<", "/">> \o c.localName \o <<">">>])

\* Document.body of the document the parser returns
BodyOf(children) == ElementNode("html", <<"b","o","d","y">>, <<>>, children)

\* Element.innerHTML; browsers differ in whether "<" and ">" are escaped
\* in attribute values
InnerHTML(element, e) == SerializeChildren(element, e.attrEscapesAngle)

-----------------------------------------------------------------------------
(* utils/sanitizeHtml *)

ALLOWED_TAGS ==
    {
      <<"p">>, <<"b","r">>, <<"s","p","a","n">>, <<"d","i","v">>, <<"b">>, <<"s","t","r","o","n","g">>, <<"i">>, <<"e","m">>, <<"u">>, <<"s">>, <<"s","t","r","i","k","e">>, <<"d","e","l">>, <<"i","n","s">>, <<"s","u","b">>, <<"s","u","p">>, <<"s","m","a","l","l">>, <<"m","a","r","k">>, <<"a","b","b","r">>, <<"c","o","d","e">>, <<"p","r","e">>, <<"k","b","d">>, <<"s","a","m","p">>, <<"v","a","r">>, <<"c","i","t","e">>, <<"q">>, <<"b","l","o","c","k","q","u","o","t","e">>,
      <<"h","1">>, <<"h","2">>, <<"h","3">>, <<"h","4">>, <<"h","5">>, <<"h","6">>,
      <<"u","l">>, <<"o","l">>, <<"l","i">>, <<"d","l">>, <<"d","t">>, <<"d","d">>,
      <<"t","a","b","l","e">>, <<"t","h","e","a","d">>, <<"t","b","o","d","y">>, <<"t","f","o","o","t">>, <<"t","r">>, <<"t","h">>, <<"t","d">>, <<"c","a","p","t","i","o","n">>, <<"c","o","l","g","r","o","u","p">>, <<"c","o","l">>,
      <<"a">>, <<"i","m","g">>,
      <<"a","r","t","i","c","l","e">>, <<"s","e","c","t","i","o","n">>, <<"a","s","i","d","e">>, <<"h","e","a","d","e","r">>, <<"f","o","o","t","e","r">>, <<"n","a","v">>, <<"m","a","i","n">>, <<"f","i","g","u","r","e">>, <<"f","i","g","c","a","p","t","i","o","n">>, <<"d","e","t","a","i","l","s">>, <<"s","u","m","m","a","r","y">>,
      <<"h","r">>, <<"w","b","r">>, <<"t","i","m","e">>, <<"a","d","d","r","e","s","s">>, <<"r","u","b","y">>, <<"r","t">>, <<"r","p">> }

ALLOWED_ATTRS ==
    {
      <<<<"*">>, {<<"i","d">>, <<"c","l","a","s","s">>, <<"t","i","t","l","e">>, <<"l","a","n","g">>, <<"d","i","r">>, <<"a","r","i","a","-","l","a","b","e","l">>, <<"a","r","i","a","-","l","a","b","e","l","l","e","d","b","y">>, <<"a","r","i","a","-","d","e","s","c","r","i","b","e","d","b","y">>, <<"a","r","i","a","-","h","i","d","d","e","n">>, <<"r","o","l","e">>, <<"t","a","b","i","n","d","e","x">>, <<"d","a","t","a","-","*">>}>>,
      <<<<"a">>, {<<"h","r","e","f">>, <<"t","a","r","g","e","t">>, <<"r","e","l">>, <<"d","o","w","n","l","o","a","d">>, <<"h","r","e","f","l","a","n","g">>, <<"t","y","p","e">>}>>,
      <<<<"i","m","g">>, {<<"s","r","c">>, <<"a","l","t">>, <<"w","i","d","t","h">>, <<"h","e","i","g","h","t">>, <<"l","o","a","d","i","n","g">>, <<"d","e","c","o","d","i","n","g">>}>>,
      <<<<"t","d">>, {<<"c","o","l","s","p","a","n">>, <<"r","o","w","s","p","a","n">>, <<"h","e","a","d","e","r","s">>}>>,
      <<<<"t","h">>, {<<"c","o","l","s","p","a","n">>, <<"r","o","w","s","p","a","n">>, <<"h","e","a","d","e","r","s">>, <<"s","c","o","p","e">>}>>,
      <<<<"c","o","l">>, {<<"s","p","a","n">>}>>,
      <<<<"c","o","l","g","r","o","u","p">>, {<<"s","p","a","n">>}>>,
      <<<<"o","l">>, {<<"s","t","a","r","t">>, <<"r","e","v","e","r","s","e","d">>, <<"t","y","p","e">>}>>,
      <<<<"l","i">>, {<<"v","a","l","u","e">>}>>,
      <<<<"t","i","m","e">>, {<<"d","a","t","e","t","i","m","e">>}>>,
      <<<<"b","l","o","c","k","q","u","o","t","e">>, {<<"c","i","t","e">>}>>,
      <<<<"q">>, {<<"c","i","t","e">>}>>,
      <<<<"a","b","b","r">>, {<<"t","i","t","l","e">>}>>,
      <<<<"d","e","t","a","i","l","s">>, {<<"o","p","e","n">>}>> }

ESCAPE_LOOKUP ==
    { <<"&", <<"&","a","m","p",";">>>>, <<"<", <<"&","l","t",";">>>>, <<">", <<"&","g","t",";">>>>,
      <<"\"", <<"&","q","u","o","t",";">>>>, <<"'", <<"&","#","3","9",";">>>> }

\* escapes "&" only
escapeHtml_ampOnly(input) ==
    Concat([i \in 1..Len(input) |->
        IF input[i] = "&" THEN <<"&","a","m","p",";">> ELSE <<input[i]>>])

\* input.replace(/[&<>"']/g, (char) => ESCAPE_LOOKUP[char] ?? char)
escapeHtml(input) ==
    Concat([i \in 1..Len(input) |->
        IF \E p \in ESCAPE_LOOKUP : p[1] = input[i]
        THEN (CHOOSE p \in ESCAPE_LOOKUP : p[1] = input[i])[2]
        ELSE <<input[i]>>])

\* ALLOWED_ATTRS[key]?.has(attrName)
AllowedAttrsHas(key, attrName) ==
    \E p \in ALLOWED_ATTRS : p[1] = key /\ attrName \in p[2]

isAllowedAttr(tagName, attrName) ==
    \/ AllowedAttrsHas(<<"*">>, attrName)
    \/ StartsWith(attrName, <<"d","a","t","a","-">>)
    \/ AllowedAttrsHas(tagName, attrName)

\* the attribute loop without the check of href and src
KeepsAttr_noUrlCheck(tagName, attr, e) ==
    LET name == ToLower(attr.name)
    IN  /\ ~StartsWith(name, <<"o","n">>)
        /\ name # <<"s","t","y","l","e">>
        /\ isAllowedAttr(tagName, name)

\* the attribute loop of sanitizeElement: TRUE when the attribute is not removed
KeepsAttr(tagName, attr, e) ==
    LET name == ToLower(attr.name)
    IN  /\ ~StartsWith(name, <<"o","n">>)
        /\ name # <<"s","t","y","l","e">>
        /\ isAllowedAttr(tagName, name)
        /\ (name \in {<<"h","r","e","f">>, <<"s","r","c">>}) => isSafeUrl(attr.value, e)

RECURSIVE SplitWhitespace(_)
\* rel.split(/\s+/).map((token) => token.trim()).filter(Boolean)
SplitWhitespace(s) ==
    IF s = <<>> THEN <<>>
    ELSE IF Head(s) \in JsWhitespace THEN SplitWhitespace(Tail(s))
    ELSE LET token == UpTo(s, JsWhitespace)
         IN  <<token>> \o SplitWhitespace(DropFirst(s, Len(token)))

\* an add that does not look for the token
SetAdd_always(tokens, t) == Append(tokens, t)

\* Set.prototype.add on a Set kept in insertion order
SetAdd(tokens, t) == IF t \in Range(tokens) THEN tokens ELSE Append(tokens, t)

RECURSIVE NewSet(_)
\* new Set(array)
NewSet(array) ==
    IF array = <<>> THEN <<>>
    ELSE SetAdd(NewSet(SubSeq(array, 1, Len(array) - 1)), array[Len(array)])

RECURSIVE Join(_, _)
\* Array.prototype.join
Join(array, sep) ==
    IF array = <<>> THEN <<>>
    ELSE IF Len(array) = 1 THEN array[1]
    ELSE array[1] \o sep \o Join(Tail(array), sep)

\* the hardening with target compared as written
HardenAnchor_caseSensitive(attrs) ==
    IF /\ HasAttribute(attrs, <<"t","a","r","g","e","t">>)
       /\ GetAttribute(attrs, <<"t","a","r","g","e","t">>) = <<"_","b","l","a","n","k">>
    THEN LET rel == IF HasAttribute(attrs, <<"r","e","l">>)
                    THEN GetAttribute(attrs, <<"r","e","l">>) ELSE <<>>
             relTokens == SetAdd(SetAdd(NewSet(SplitWhitespace(rel)),
                                        <<"n","o","o","p","e","n","e","r">>), <<"n","o","r","e","f","e","r","r","e","r">>)
         IN  SetAttribute(attrs, <<"r","e","l">>, Join(relTokens, <<" ">>))
    ELSE attrs

\* the anchor hardening of sanitizeElement
HardenAnchor(attrs) ==
    IF /\ HasAttribute(attrs, <<"t","a","r","g","e","t">>)
       /\ GetAttribute(attrs, <<"t","a","r","g","e","t">>) # <<>>
       /\ ToLower(GetAttribute(attrs, <<"t","a","r","g","e","t">>)) = <<"_","b","l","a","n","k">>
    THEN LET rel == IF HasAttribute(attrs, <<"r","e","l">>)
                    THEN GetAttribute(attrs, <<"r","e","l">>) ELSE <<>>
             relTokens == SetAdd(SetAdd(NewSet(SplitWhitespace(rel)),
                                        <<"n","o","o","p","e","n","e","r">>), <<"n","o","r","e","f","e","r","r","e","r">>)
         IN  SetAttribute(attrs, <<"r","e","l">>, Join(relTokens, <<" ">>))
    ELSE attrs

\* "Add security attributes to external links": the attributes of a kept
\* element after the anchor step
SecureLink(tagName, attrs) ==
    IF tagName = <<"a">> THEN HardenAnchor(attrs) ELSE attrs

RECURSIVE sanitizeElement(_, _)
\* a pass over the children that does not go into the elements it keeps
sanitizeElement_shallow(element, e) ==
    [element EXCEPT !.children = [i \in 1..Len(element.children) |->
        LET child == element.children[i]
            tagName == ToLower(TagName(child))
        IN  IF child.kind # "element" THEN child
            ELSE IF tagName \notin ALLOWED_TAGS
            THEN TextNode(textContent(child))
            ELSE [child EXCEPT !.attrs =
                     SecureLink(tagName,
                         SelectSeq(child.attrs,
                                   LAMBDA attr : KeepsAttr(tagName, attr, e)))]]]

\* the element after sanitizeElement(element, doc) has run on it
sanitizeElement(element, e) ==
    [element EXCEPT !.children = [i \in 1..Len(element.children) |->
        LET child == element.children[i]
            tagName == ToLower(TagName(child))
        IN  IF child.kind # "element" THEN child
            ELSE IF tagName \notin ALLOWED_TAGS
            THEN TextNode(textContent(child))
            ELSE sanitizeElement(
                     [child EXCEPT !.attrs =
                         SecureLink(tagName,
                             SelectSeq(child.attrs,
                                       LAMBDA attr : KeepsAttr(tagName, attr, e)))],
                     e)]]

HtmlUnset == [set |-> FALSE, threw |-> FALSE, mode |-> "none", tree |-> <<>>, html |-> <<>>]
HtmlResult(mode, tree, html) ==
    [set |-> TRUE, threw |-> FALSE, mode |-> mode, tree |-> tree, html |-> html]

\* the sanitized body and doc.body.innerHTML
DomResult(sanitized, e) ==
    HtmlResult("dom", sanitized.children, InnerHTML(sanitized, e))

\* a sanitizeHtml that escapes only when both DOMParser and document are missing
sanitizeHtml_bothMissing(input, body, e) ==
    IF input = <<>> THEN HtmlResult("empty", <<>>, <<>>)
    ELSE IF ~e.hasDOMParser /\ ~e.hasDocument
    THEN HtmlResult("escape", <<>>, escapeHtml(input))
    ELSE DomResult(sanitizeElement(BodyOf(body), e), e)

\* sanitizeHtml(input); body is the content of doc.body that
\* parser.parseFromString(input, "text/html") returns
sanitizeHtml(input, body, e) ==
    IF input = <<>> THEN HtmlResult("empty", <<>>, <<>>)
    ELSE IF ~e.hasDOMParser \/ ~e.hasDocument
    THEN HtmlResult("escape", <<>>, escapeHtml(input))
    ELSE DomResult(sanitizeElement(BodyOf(body), e), e)

-----------------------------------------------------------------------------
(* DOMParser on markup that innerHTML produced *)

\* the parser drops an empty run of characters and joins a run of
\* characters to the Text node in front of it
InsertNode(acc, node) ==
    IF node.kind # "text" THEN Append(acc, node)
    ELSE IF node.data = <<>> THEN acc
    ELSE IF acc # <<>> /\ acc[Len(acc)].kind = "text"
    THEN [acc EXCEPT ![Len(acc)].data = @ \o node.data]
    ELSE Append(acc, node)

RECURSIVE ParseInto(_, _)
\* the children the parser builds from the serialization of forest, after
\* the nodes of acc.  Characters directly in a table are foster-parented:
\* they go in front of the table.  (The serialized forests here hold
\* nothing else in a table that the parser would move.)
ParseInto(acc, forest) ==
    IF forest = <<>> THEN acc
    ELSE LET node == Head(forest)
         IN  IF node.kind # "element"
             THEN ParseInto(InsertNode(acc, node), Tail(forest))
             ELSE IF node.ns = "html" /\ node.localName = <<"t","a","b","l","e">>
             THEN LET chars == SelectSeq(node.children, LAMBDA n : n.kind = "text")
                      others == SelectSeq(node.children, LAMBDA n : n.kind # "text")
                      table == [node EXCEPT !.children = ParseInto(<<>>, others)]
                  IN  ParseInto(Append(ParseInto(acc, chars), table), Tail(forest))
             ELSE ParseInto(
                      Append(acc, [node EXCEPT !.children = ParseInto(<<>>, node.children)]),
                      Tail(forest))

\* parser.parseFromString(markup, "text/html").body for the markup that
\* serializes forest
ParseSerialized(forest) == ParseInto(<<>>, forest)

-----------------------------------------------------------------------------
(* utils/validateApiResponse: values of the API response and their checks *)

\* JavaScript values of a decoded response
JsUndefined == [t |-> "undefined"]
JsNull == [t |-> "null"]
JsNumber == [t |-> "number"]
JsString(s) == [t |-> "string", s |-> s]
\* an action object; a field that is absent is JsUndefined
JsActionWith(kind, label, type, href, target, rel, id, actionId) ==
    [t |-> "object", kind |-> kind, label |-> label, type |-> type,
     href |-> href, target |-> target, rel |-> rel, id |-> id,
     actionId |-> actionId]
JsAction(kind, label, type, href, target, actionId) ==
    JsActionWith(kind, label, type, href, target, JsUndefined, JsUndefined,
                 actionId)

\* ToBoolean; the number of the model is not 0
Truthy(v) == v.t \in {"object", "number"} \/ (v.t = "string" /\ v.s # <<>>)

isNonEmptyString(value) == value.t = "string" /\ Len(value.s) > 0

\* a test that lets an absent value through
isStringOrNull_orAbsent(value) ==
    value.t = "null" \/ value.t = "string" \/ value.t = "undefined"

isStringOrNull(value) == value.t = "null" \/ value.t = "string"

isValidActionType(value) ==
    value = JsString(<<"p","r","i","m","a","r","y">>) \/ value = JsString(<<"s","e","c","o","n","d","a","r","y">>)

\* a test that lets every string through
isValidTarget_anyString(value) == value.t \in {"undefined", "string"}

isValidTarget(value) ==
    IF value.t = "undefined" THEN TRUE
    ELSE IF value.t # "string" THEN FALSE
    ELSE \/ value.s \in {<<"_","s","e","l","f">>, <<"_","b","l","a","n","k">>, <<"_","p","a","r","e","n","t">>, <<"_","t","o","p">>}
         \/ StartsWith(value.s, <<"_">>)

validateLinkAction(action, e) ==
    IF action.t # "object" THEN FALSE
    ELSE IF action.kind # JsString(<<"l","i","n","k">>) THEN FALSE
    ELSE IF ~isNonEmptyString(action.label) THEN FALSE
    ELSE IF ~isValidActionType(action.type) THEN FALSE
    ELSE IF ~isNonEmptyString(action.href) THEN FALSE
    ELSE IF ~isSafeUrl(action.href.s, e) THEN FALSE
    ELSE IF ~isValidTarget(action.target) THEN FALSE
    ELSE IF action.rel.t \notin {"undefined", "string"} THEN FALSE
    ELSE IF action.id.t \notin {"undefined", "string"} THEN FALSE
    ELSE TRUE

validateCallbackAction(action) ==
    IF action.t # "object" THEN FALSE
    ELSE IF action.kind # JsString(<<"c","a","l","l","b","a","c","k">>) THEN FALSE
    ELSE IF ~isNonEmptyString(action.label) THEN FALSE
    ELSE IF ~isValidActionType(action.type) THEN FALSE
    ELSE IF ~isNonEmptyString(action.actionId) THEN FALSE
    ELSE IF action.id.t \notin {"undefined", "string"} THEN FALSE
    ELSE TRUE

validateAction(action, e) ==
    IF action.t = "undefined" THEN TRUE
    ELSE validateLinkAction(action, e) \/ validateCallbackAction(action)

\* a copy with every action left in place
sanitizeMessageDetailsResponse_asIs(response, e) == response

\* the copy that sanitizeMessageDetailsResponse returns; a deleted action
\* reads as undefined
sanitizeMessageDetailsResponse(response, e) ==
    [response EXCEPT
        !.primaryAction =
            IF Truthy(@) /\ ~validateAction(@, e) THEN JsUndefined ELSE @,
        !.secondaryAction =
            IF Truthy(@) /\ ~validateAction(@, e) THEN JsUndefined ELSE @]

-----------------------------------------------------------------------------
(* utils/validateApiResponse: the message details response *)

\* a reference to an object of the heap; objects maps it to the fields of
\* the object, a field that is absent being JsUndefined
JsRef(ref) == [t |-> "ref", ref |-> ref]

DetailsRecord(messageId, title, snippet, createdAt, bodyHtml, category, primaryAction, secondaryAction) ==
    [messageId |-> messageId, title |-> title, snippet |-> snippet,
     createdAt |-> createdAt, bodyHtml |-> bodyHtml, category |-> category,
     primaryAction |-> primaryAction, secondaryAction |-> secondaryAction]

\* ValidationResult<T>
ValidResult(data) == [valid |-> TRUE, data |-> data, error |-> ""]
InvalidResult(error) == [valid |-> FALSE, data |-> JsUndefined, error |-> error]
NoResult == [valid |-> FALSE, data |-> JsUndefined, error |-> "not called"]

\* a validation that tests category before bodyHtml
validateMessageDetailsResponse_categoryFirst(response, objs, e) ==
    IF response.t # "ref" THEN InvalidResult("Response must be an object")
    ELSE LET obj == objs[response.ref]
         IN  IF ~isNonEmptyString(obj.messageId)
             THEN InvalidResult("messageId must be a non-empty string")
             ELSE IF ~isStringOrNull(obj.title)
             THEN InvalidResult("title must be a string or null")
             ELSE IF ~isStringOrNull(obj.snippet)
             THEN InvalidResult("snippet must be a string or null")
             ELSE IF ~isNonEmptyString(obj.createdAt)
             THEN InvalidResult("createdAt must be a non-empty string")
             ELSE IF ~isStringOrNull(obj.category)
             THEN InvalidResult("category must be a string or null")
             ELSE IF obj.bodyHtml.t # "string"
             THEN InvalidResult("bodyHtml must be a string")
             ELSE IF obj.primaryAction.t # "undefined"
                     /\ ~validateAction(obj.primaryAction, e)
             THEN InvalidResult("primaryAction has invalid structure or unsafe URL")
             ELSE IF obj.secondaryAction.t # "undefined"
                     /\ ~validateAction(obj.secondaryAction, e)
             THEN InvalidResult("secondaryAction has invalid structure or unsafe URL")
             ELSE ValidResult(response)

\* validateMessageDetailsResponse(response); a value that is not a
\* reference is a primitive, for which typeof is not "object", or null
validateMessageDetailsResponse(response, objs, e) ==
    IF response.t # "ref" THEN InvalidResult("Response must be an object")
    ELSE LET obj == objs[response.ref]
         IN  IF ~isNonEmptyString(obj.messageId)
             THEN InvalidResult("messageId must be a non-empty string")
             ELSE IF ~isStringOrNull(obj.title)
             THEN InvalidResult("title must be a string or null")
             ELSE IF ~isStringOrNull(obj.snippet)
             THEN InvalidResult("snippet must be a string or null")
             ELSE IF ~isNonEmptyString(obj.createdAt)
             THEN InvalidResult("createdAt must be a non-empty string")
             ELSE IF obj.bodyHtml.t # "string"
             THEN InvalidResult("bodyHtml must be a string")
             ELSE IF ~isStringOrNull(obj.category)
             THEN InvalidResult("category must be a string or null")
             ELSE IF obj.primaryAction.t # "undefined"
                     /\ ~validateAction(obj.primaryAction, e)
             THEN InvalidResult("primaryAction has invalid structure or unsafe URL")
             ELSE IF obj.secondaryAction.t # "undefined"
                     /\ ~validateAction(obj.secondaryAction, e)
             THEN InvalidResult("secondaryAction has invalid structure or unsafe URL")
             ELSE ValidResult(response)

EmptyObject ==
    DetailsRecord(JsUndefined, JsUndefined, JsUndefined, JsUndefined,
                  JsUndefined, JsUndefined, JsUndefined, JsUndefined)

\* a copy that is the object itself
sanitizeOnHeap_inPlace(response, objs, e) ==
    IF response.t # "ref"
    THEN [objects |-> Append(objs, EmptyObject), result |-> JsRef(Len(objs) + 1)]
    ELSE [objects |-> [objs EXCEPT ![response.ref] =
                          sanitizeMessageDetailsResponse(@, e)],
          result |-> response]

\* sanitizeMessageDetailsResponse on the heap: { ...response } is a new
\* object, the only one the deletions touch; the spread of a value that is
\* not an object has no fields
sanitizeOnHeap(response, objs, e) ==
    IF response.t # "ref"
    THEN [objects |-> Append(objs, EmptyObject), result |-> JsRef(Len(objs) + 1)]
    ELSE [objects |-> Append(objs,
                          sanitizeMessageDetailsResponse(objs[response.ref], e)),
          result |-> JsRef(Len(objs) + 1)]

\* no call of the validation functions yet
ValIdle ==
    /\ objects = <<>>
    /\ valInput = JsUndefined
    /\ valRes = NoResult
    /\ actInput = JsUndefined
    /\ actRes = "none"
    /\ sanRes = JsUndefined

-----------------------------------------------------------------------------
(* utils/safeUrl: safeNavigate *)

\* what a call did to the browser
NoEffect ==
    [via |-> "none", href |-> <<>>, target |-> JsUndefined, features |-> <<>>,
     handle |-> FALSE, openerCleared |-> FALSE, threw |-> FALSE]
\* a TypeError left the call before any effect
ThrewTypeError == [NoEffect EXCEPT !.threw = TRUE]
LocationAssign(href) == [NoEffect EXCEPT !.via = "assign", !.href = href]
\* window.open(href, target, features); opened tells whether it returned a
\* window, whose opener is then set to null
WindowOpen(href, target, features, opened) ==
    [NoEffect EXCEPT !.via = "open", !.href = href, !.target = target,
                     !.features = features, !.handle = opened,
                     !.openerCleared = opened]

\* safeNavigate from the test of safeHref on
NavigateTo(safeHref, target, opened, e) ==
    IF safeHref.null \/ safeHref.value = <<>> THEN NoEffect
    ELSE LET targetValue == IF target.t \in {"undefined", "null"}
                            THEN JsString(<<"_","s","e","l","f">>) ELSE target
         IN  IF targetValue = JsString(<<"_","s","e","l","f">>)
             THEN IF e.hasLocation THEN LocationAssign(safeHref.value)
                  ELSE ThrewTypeError
             ELSE WindowOpen(safeHref.value, targetValue,
                             <<"n","o","o","p","e","n","e","r",",","n","o","r","e","f","e","r","r","e","r">>, opened)

\* a safeNavigate that hands the trimmed href to the browser unchecked
safeNavigate_unchecked(href, target, opened, e) ==
    IF ~e.hasWindow THEN NoEffect
    ELSE IF href.t # "string" THEN ThrewTypeError
    ELSE NavigateTo(UrlValue(Trim(href.s)), target, opened, e)

\* safeNavigate(href, target); a href that is not a string has no trim
\* method, and normalizeSafeUrl throws
safeNavigate(href, target, opened, e) ==
    IF ~e.hasWindow THEN NoEffect
    ELSE IF href.t # "string" THEN ThrewTypeError
    ELSE NavigateTo(normalizeSafeUrl(href.s, e), target, opened, e)

\* onClick of an action button of FeedMessage and of MessageDetails
ActionClick(action, opened, e) ==
    IF action.t = "object" /\ action.kind = JsString(<<"l","i","n","k">>)
    THEN safeNavigate(action.href, action.target, opened, e)
    ELSE NoEffect

NoClick ==
    [from |-> "none", asked |-> JsUndefined, target |-> JsUndefined,
     effect |-> NoEffect]

NoActions == [primaryAction |-> JsUndefined, secondaryAction |-> JsUndefined]

\* nothing rendered, nothing clicked
NavIdle ==
    /\ message = NoActions
    /\ result = NoActions
    /\ detailsData = JsNull
    /\ lastNav = NoClick

-----------------------------------------------------------------------------
(* adapters/memberClient: token managers and request *)

\* what a call can throw: whether it is an instance of Error, its status
\* property (0 when it has none) and the step of the call it comes from
ClientError(isError, status, src) ==
    [isError |-> isError, status |-> status, src |-> src]
NoError == ClientError(FALSE, 0, "none")

\* the settled value of the promise that tokenManager.get() returns
Fulfilled(token) == [ok |-> TRUE, token |-> token, error |-> NoError]
Rejected(error) == [ok |-> FALSE, token |-> 0, error |-> error]
NoPromise == [ok |-> FALSE, token |-> 0, error |-> ClientError(FALSE, 0, "null")]

\* the token of a StaticTokenManager
StaticToken == 0

StaticTokenManager ==
    [kind |-> "static", tokenPromise |-> NoPromise, issued |-> 0]
DynamicTokenManager ==
    [kind |-> "dynamic", tokenPromise |-> NoPromise, issued |-> 0]

\* what getToken of the host can do: return a token that was not returned
\* before, or fail with an Error, with an Error whose status is 401, or with
\* a value that is no Error
GetTokenResults(tm, src) ==
    {Fulfilled(tm.issued + 1)}
        \cup {Rejected(ClientError(isError, status, src)) :
                 <<isError, status>> \in {<<TRUE, 0>>, <<TRUE, 401>>, <<FALSE, 0>>}}

\* tokenManager.get(): the manager after the call and the promise returned
TokenManagerGet(tm, src) ==
    IF tm.kind = "static" THEN {<<tm, Fulfilled(StaticToken)>>}
    ELSE IF tm.tokenPromise # NoPromise THEN {<<tm, tm.tokenPromise>>}
    ELSE {<<[tm EXCEPT !.tokenPromise = p, !.issued = @ + 1], p>> :
             p \in GetTokenResults(tm, src)}

\* tokenManager.clear()
TokenManagerClear(tm) ==
    IF tm.kind = "static" THEN tm ELSE [tm EXCEPT !.tokenPromise = NoPromise]

\* a call of request that has not started
IdleRequest ==
    [pc |-> "idle", awaited |-> NoPromise, tokens |-> <<>>, gets |-> 0,
     clears |-> 0, firstError |-> NoError, authErrors |-> <<>>,
     thrown |-> NoError]

\* how fetch and the reading of the response can end: a status, or 0 for a
\* rejection (an Error without status)
FetchResults == {200, 401, 500, 0}

\* the Error makeRequest throws
RequestError(status, src) == ClientError(TRUE, status, src)

\* a catch that retries whatever was thrown
RetryOn_always(error) == TRUE

\* the condition of the outer catch
RetryOn(error) == error.isError /\ error.status = 401

\* the inner catch reporting the error of the first attempt
AuthErrorsAfter_firstError(req, retryError) ==
    IF onAuthError /\ retryError.isError
    THEN Append(req.authErrors, req.firstError)
    ELSE req.authErrors

\* the inner catch: onAuthError is called with an Error of the retry
AuthErrorsAfter(req, retryError) ==
    IF onAuthError /\ retryError.isError
    THEN Append(req.authErrors, retryError)
    ELSE req.authErrors

\* no member client yet
ClientIdle ==
    /\ tokenManager = StaticTokenManager
    /\ onAuthError = FALSE
    /\ requests = [r \in 1..MaxRequests |-> IdleRequest]

-----------------------------------------------------------------------------
(* components/MessageDetails: state, fetch effect and what is rendered *)

\* the props of MessageDetails that matter here; sanitizeHtml names the
\* function the host passes, "undefined" when it passes none
MessageDetailsProps(id, sanitizer) == [messageId |-> id, sanitizeHtml |-> sanitizer]

\* a run of fetchDetails, with the isMounted of the effect that started it
FetchRun(id, isMounted, status) ==
    [messageId |-> id, isMounted |-> isMounted, status |-> status]

\* a cleanup that leaves isMounted as it is
Cleanup_none(runs) == runs

\* the cleanup of the effect: isMounted = false
Cleanup(runs) == [i \in DOMAIN runs |-> [runs[i] EXCEPT !.isMounted = FALSE]]

\* shouldShowCard, in a render that does not return null
ShouldShowCard ==
    /\ mounted
    /\ Truthy(props.messageId)
    /\ ~isLoading /\ ~errorMessage /\ detailsData # JsNull

\* headingText
HeadingText(dat) ==
    IF dat # JsNull /\ Truthy(dat.title) /\ Len(Trim(dat.title.s)) > 0
    THEN dat.title.s ELSE <<"N","o","t","i","f","i","c","a","t","i","o","n">>

\* the action slots for which a button is rendered
RenderedActions ==
    IF ShouldShowCard
    THEN {slot \in {"primaryAction", "secondaryAction"} : Truthy(detailsData[slot])}
    ELSE {}

\* data?.bodyHtml ?? ""
BodyHtmlOf(dat) ==
    IF dat = JsNull \/ dat.bodyHtml.t \in {"undefined", "null"} THEN <<>>
    ELSE dat.bodyHtml.s

\* no MessageDetails yet
DetailsIdle ==
    /\ inbox = <<>>
    /\ mounted = FALSE
    /\ props = MessageDetailsProps(JsNull, "undefined")
    /\ isLoading = FALSE
    /\ errorMessage = FALSE
    /\ effectPending = FALSE
    /\ fetches = <<>>

-----------------------------------------------------------------------------
(* components/Feed: the per-filter cache, its fetches and its actions *)

\* the values of FeedTypeFilter
Read == <<"r","e","a","d">>
Unread == <<"u","n","r","e","a","d">>
Archived == <<"a","r","c","h","i","v","e","d">>
All == <<"a","l","l">>
ALLOWED_FEED_TYPES == <<Read, Unread, Archived, All>>
DEFAULT_FEED_TYPES == <<Unread, Read>>

\* the type prop: undefined, one filter, or an array of filters
TypeUndefined == [t |-> "undefined"]
TypeOne(filter) == [t |-> "string", s |-> filter]
TypeArray(filters) == [t |-> "array", items |-> filters]

InSeq(x, s) == \E i \in DOMAIN s : s[i] = x

\* Array.from(new Set(s)): the first occurrence of each element
Unique(s) ==
    LET keep(i) == \A j \in 1..(i - 1) : s[j] # s[i]
        kept == {i \in DOMAIN s : keep(i)}
        RECURSIVE from(_)
        from(i) == IF i > Len(s) THEN <<>>
                   ELSE IF i \in kept THEN <<s[i]>> \o from(i + 1) ELSE from(i + 1)
    IN from(1)

\* normalizeTypeFilters
normalizeTypeFilters(value) ==
    IF value.t = "undefined" THEN DEFAULT_FEED_TYPES
    ELSE LET source == IF value.t = "array" THEN value.items ELSE <<value.s>>
             allowed(item) == InSeq(item, ALLOWED_FEED_TYPES)
             normalized == SelectSeq(source, allowed)
         IN IF Len(normalized) = 0 THEN DEFAULT_FEED_TYPES
            ELSE IF InSeq(All, Unique(normalized)) THEN <<All>>
            ELSE Unique(normalized)

\* listFilters: undefined, here the empty sequence, when "all" is asked for
ListFilters(typeFilters) == IF InSeq(All, typeFilters) THEN <<>> ELSE typeFilters

\* slice().sort() of an array of filters: the order of the code units
SortFilters(filters) ==
    LET ordered == <<Archived, Read, Unread>>
        has(item) == InSeq(item, filters)
    IN SelectSeq(ordered, has)

\* join(",")
RECURSIVE JoinComma(_)
JoinComma(ss) ==
    IF ss = <<>> THEN <<>>
    ELSE IF Len(ss) = 1 THEN ss[1]
    ELSE ss[1] \o <<",">> \o JoinComma(Tail(ss))

\* filterKey, with no category
FilterKey(typeFilters) ==
    LET statusKey == IF ListFilters(typeFilters) # <<>>
                     THEN JoinComma(SortFilters(ListFilters(typeFilters)))
                     ELSE All
    IN statusKey \o <<"|","c","a","t","e","g","o","r","y",":">> \o <<"_","_","c","a","t","e","g","o","r","y","-","a","l","l","_","_">>

\* a message of the inbox: readAt and archivedAt are TRUE for a time and
\* FALSE for null
FeedMessageOf(id, createdAt, readAt, archivedAt) == [id |-> id, createdAt |-> createdAt, readAt |-> readAt, archivedAt |-> archivedAt]

\* the values of the Map byId in the order of insertion: the place of the
\* first message with an id, the value of the last
ByIdValues(items) ==
    LET last(i) == CHOOSE j \in DOMAIN items :
                      /\ items[j].id = items[i].id
                      /\ \A k \in DOMAIN items : items[k].id = items[i].id => k <= j
        RECURSIVE from(_)
        from(i) == IF i > Len(items) THEN <<>>
                   ELSE IF \A j \in 1..(i - 1) : items[j].id # items[i].id
                        THEN <<items[last(i)]>> \o from(i + 1)
                        ELSE from(i + 1)
    IN from(1)

\* Array.prototype.sort with (a, b) => time(b) - time(a): stable, latest first
RECURSIVE SortByCreatedAtDesc(_)
SortByCreatedAtDesc(items) ==
    IF items = <<>> THEN <<>>
    ELSE LET rest == SortByCreatedAtDesc(SubSeq(items, 1, Len(items) - 1))
             x == items[Len(items)]
             before(m) == m.createdAt >= x.createdAt
             after(m) == m.createdAt < x.createdAt
         IN SelectSeq(rest, before) \o <<x>> \o SelectSeq(rest, after)

\* sorting without the Map
sortAndDedupeMessages_sortOnly(items) == SortByCreatedAtDesc(items)

\* sortAndDedupeMessages
sortAndDedupeMessages(items) == SortByCreatedAtDesc(ByIdValues(items))

\* defaultFeedEntry.  The text of loadMoreError, which is shown and
\* read by no handler, is left out
defaultFeedEntry ==
    [messages |-> <<>>, nextCursor |-> JsNull, error |-> JsNull,
     isLoading |-> FALSE, isLoadingMore |-> FALSE, hasFetched |-> FALSE]

\* prev[key] ?? defaultFeedEntry
EntryOf(cache, key) == IF key \in DOMAIN cache THEN cache[key] ELSE defaultFeedEntry

\* { ...prev, [key]: entry }
WithEntry(cache, key, entry) ==
    [k \in DOMAIN cache \cup {key} |-> IF k = key THEN entry ELSE cache[k]]

HasMessage(entry, id) == \E i \in DOMAIN entry.messages : entry.messages[i].id = id

\* the update of markMessageRead
markMessageRead(cache, key, id) ==
    LET prevEntry == EntryOf(cache, key)
        updatedMessages == [i \in DOMAIN prevEntry.messages |->
            IF prevEntry.messages[i].id = id
            THEN [prevEntry.messages[i] EXCEPT !.readAt = TRUE]
            ELSE prevEntry.messages[i]]
    IN IF ~HasMessage(prevEntry, id) THEN cache
       ELSE WithEntry(cache, key, [prevEntry EXCEPT !.messages = updatedMessages])

\* the update of markMessageUnread
markMessageUnread(cache, key, id) ==
    LET prevEntry == EntryOf(cache, key)
        updatedMessages == [i \in DOMAIN prevEntry.messages |->
            IF prevEntry.messages[i].id = id
            THEN [prevEntry.messages[i] EXCEPT !.readAt = FALSE]
            ELSE prevEntry.messages[i]]
    IN IF ~HasMessage(prevEntry, id) THEN cache
       ELSE WithEntry(cache, key, [prevEntry EXCEPT !.messages = updatedMessages])

\* the update of archiveMessage
archiveMessage(cache, key, id) ==
    LET prevEntry == EntryOf(cache, key)
        other(m) == m.id # id
        filtered == SelectSeq(prevEntry.messages, other)
    IN IF ~HasMessage(prevEntry, id) THEN cache
       ELSE WithEntry(cache, key, [prevEntry EXCEPT !.messages = filtered])

\* the update of unarchiveMessage
unarchiveMessage(cache, key, id, typeFilters) ==
    LET prevEntry == EntryOf(cache, key)
        supportsActiveMessages ==
            InSeq(All, typeFilters) \/ InSeq(Read, typeFilters) \/ InSeq(Unread, typeFilters)
        updated == [i \in DOMAIN prevEntry.messages |->
            IF prevEntry.messages[i].id = id
            THEN [prevEntry.messages[i] EXCEPT !.archivedAt = FALSE]
            ELSE prevEntry.messages[i]]
        other(m) == m.id # id
        nextMessages == IF supportsActiveMessages THEN updated
                        ELSE SelectSeq(updated, other)
    IN IF ~HasMessage(prevEntry, id) THEN cache
       ELSE WithEntry(cache, key, [prevEntry EXCEPT !.messages = nextMessages])

\* a call of client.listInbox that has not settled: the handler that
\* made it, and the requestKey and the status filters of its closure
ListCall(kind, key, filters) == [kind |-> kind, key |-> key, filters |-> filters]

\* the action of a message that the Feed handled in its last step
FeedEvent(kind, key, id) == [kind |-> kind, key |-> key, id |-> id]
NoFeedEvent == FeedEvent("none", <<>>, "none")

\* no Feed yet
FeedIdle ==
    /\ feedMounted = FALSE
    /\ feedType = TypeUndefined
    /\ stateByFilter = <<>>
    /\ listCalls = EmptyBag
    /\ feedEvent = NoFeedEvent

-----------------------------------------------------------------------------
(* components/Inbox: props, state, effects and what is rendered *)

\* the props of Inbox that matter here
InboxProps(variantProp, bellPropsProp) == [variant |-> variantProp, bellProps |-> bellPropsProp]

\* the variant prop
Variants == {"popover", "modal", "drawer"}

\* the messageDetails state while no message is selected
NoMessageDetails == [display |-> "none", messageId |-> JsNull]

\* what the n-th call of client.getMeta resolves with: the meta of the
\* server when it answered that call
MetaResponse(n) == [version |-> n, unreadCount |-> [total |-> n]]

\* a call of client.getMeta: the effect that made it ("mount" for the
\* effect on [client], "open" for the one on [isOpen, client]), the
\* isMounted of that run of the effect, and how far the call is
MetaFetch(source, isMounted, status) ==
    [source |-> source, isMounted |-> isMounted, status |-> status]

\* the handler or event that happened last, with the message it was about
InboxEvent(kind, msg) == [kind |-> kind, message |-> msg]
NoFeedMessage == [hasBody |-> FALSE, messageId |-> JsNull]

\* an object spread into an element after props: its keys win
SpreadOver(elementProps, spread) ==
    [k \in DOMAIN elementProps \cup DOMAIN spread |->
        IF k \in DOMAIN spread THEN spread[k] ELSE elementProps[k]]

\* derivedMeta?.unreadCount.total ?? 0
DerivedUnread == IF derivedMeta = JsNull THEN 0 ELSE derivedMeta.unreadCount.total

\* the props of the Bell that renderTrigger renders
BellElementProps ==
    SpreadOver([onClick |-> "onClick", unread |-> DerivedUnread], inboxProps.bellProps)

\* the render flags
ShouldRenderInlinePreferences ==
    inboxProps.variant # "popover" /\ preferencesDisplay = "inline"
ShouldRenderPreferencesDialog ==
    inboxProps.variant = "popover" /\ preferencesDisplay = "dialog"
ShouldRenderInlineMessageDetails ==
    /\ inboxProps.variant # "popover"
    /\ messageDetails.display = "inline"
    /\ Truthy(messageDetails.messageId)
ShouldRenderMessageDetailsDialog ==
    /\ inboxProps.variant = "popover"
    /\ messageDetails.display = "dialog"
    /\ Truthy(messageDetails.messageId)
ActiveInlineView ==
    IF ShouldRenderInlinePreferences THEN "preferences"
    ELSE IF ShouldRenderInlineMessageDetails THEN "message"
    ELSE "none"

\* the effect on [isOpen, variant]: the preferences view goes when the
\* container is closed, except the dialog of the popover variant
PreferencesOnClose_always(open, variantProp, current) ==
    IF ~open THEN "none" ELSE current
PreferencesOnClose(open, variantProp, current) ==
    IF ~open
    THEN IF variantProp = "popover" /\ current = "dialog" THEN current ELSE "none"
    ELSE current

\* the effect on [isOpen]: inline message details go when the container
\* is closed
MessageDetailsOnClose(open, current) ==
    IF ~open /\ current.display = "inline" THEN NoMessageDetails ELSE current

\* the effects on [variant]: a display that does not fit the variant goes
PreferencesOnVariant(variantProp, current) ==
    IF variantProp = "popover" /\ current = "inline" THEN "none"
    ELSE IF variantProp # "popover" /\ current = "dialog" THEN "none"
    ELSE current
MessageDetailsOnVariant(variantProp, current) ==
    IF variantProp = "popover" /\ current.display = "inline" THEN NoMessageDetails
    ELSE IF variantProp # "popover" /\ current.display = "dialog" THEN NoMessageDetails
    ELSE current

\* the cleanup of the effect on [isOpen, client]: isMounted = false in
\* the runs of that effect
CleanupOpenFetches(runs) ==
    [i \in DOMAIN runs |->
        IF runs[i].source = "open" THEN [runs[i] EXCEPT !.isMounted = FALSE]
        ELSE runs[i]]

\* the cleanups on unmount: isMounted = false in every run
CleanupAllFetches(runs) == [i \in DOMAIN runs |-> [runs[i] EXCEPT !.isMounted = FALSE]]

\* a guard that lets every message through
CanOpenDetails_anyMessage(msg) == TRUE

\* the guard of handleMessageSelect: the message has a body and a messageId
CanOpenDetails(msg) == msg.hasBody /\ Truthy(msg.messageId)

\* no Inbox yet
InboxIdle ==
    /\ inboxProps = InboxProps("popover", <<>>)
    /\ isOpen = FALSE
    /\ preferencesDisplay = "none"
    /\ messageDetails = NoMessageDetails
    /\ meta = JsNull
    /\ derivedMeta = JsNull
    /\ isMetaLoading = FALSE
    /\ metaFetches = <<>>
    /\ changedDeps = {}
    /\ lastEvent = InboxEvent("none", NoFeedMessage)

-----------------------------------------------------------------------------
(* Execution contexts *)

HrefHttp == <<"h","t","t","p",":","/","/","h","/","p">>
HrefHttps == <<"h","t","t","p","s",":","/","/","h","/","p">>
HrefFile == <<"f","i","l","e",":","/","/","/","p">>
HrefAbout == <<"a","b","o","u","t",":","b","l","a","n","k">>
Hrefs == {HrefHttp, HrefHttps, HrefFile, HrefAbout}

\* a document in a window: location.href is the document's URL
BrowserEnv(href, angle) ==
    [hasWindow |-> TRUE, hasLocation |-> TRUE, href |-> href,
     hasDocument |-> TRUE, hasDOMParser |-> TRUE, attrEscapesAngle |-> angle]
\* no browsing context (server-side rendering)
ServerEnv ==
    [hasWindow |-> FALSE, hasLocation |-> FALSE, href |-> <<>>,
     hasDocument |-> FALSE, hasDOMParser |-> FALSE, attrEscapesAngle |-> FALSE]
\* a global window object without a location
BareWindowEnv ==
    [hasWindow |-> TRUE, hasLocation |-> FALSE, href |-> <<>>,
     hasDocument |-> FALSE, hasDOMParser |-> FALSE, attrEscapesAngle |-> FALSE]
\* a DOMParser global without a document
ParserOnlyEnv ==
    [hasWindow |-> FALSE, hasLocation |-> FALSE, href |-> <<>>,
     hasDocument |-> FALSE, hasDOMParser |-> TRUE, attrEscapesAngle |-> FALSE]
\* a window and a document without a DOMParser global
NoParserEnv ==
    [hasWindow |-> TRUE, hasLocation |-> TRUE, href |-> HrefHttp,
     hasDocument |-> TRUE, hasDOMParser |-> FALSE, attrEscapesAngle |-> FALSE]

UrlEnvs == {BrowserEnv(h, FALSE) : h \in Hrefs} \cup {ServerEnv, BareWindowEnv}

HtmlEnvs ==
    {BrowserEnv(HrefHttp, a) : a \in BOOLEAN}
        \cup {BrowserEnv(HrefFile, TRUE), BrowserEnv(HrefAbout, FALSE),
              ServerEnv, ParserOnlyEnv, NoParserEnv}

-----------------------------------------------------------------------------
(* URL inputs *)

RECURSIVE SeqsUpTo(_, _)
\* the sequences over S of length at most n
SeqsUpTo(S, n) ==
    IF n = 0 THEN {<<>>}
    ELSE LET shorter == SeqsUpTo(S, n - 1)
         IN  shorter \cup {<<c>> \o t : c \in S, t \in {u \in shorter : Len(u) = n - 1}}

PadChars == {" ", "\t", "SOH"}
Pads == SeqsUpTo(PadChars, MaxPad)

UrlSchemeParts ==
    { <<>>,
      <<"h","t","t","p",":">>, <<"h","t","t","p","s",":">>, <<"H","T","T","P","S",":">>,
      <<"m","a","i","l","t","o",":">>, <<"t","e","l",":">>,
      <<"j","a","v","a","s","c","r","i","p","t",":">>,
      <<"J","a","v","a","S","c","r","i","p","t",":">>,
      <<"j","a","v","a","\t","s","c","r","i","p","t",":">>,
      <<"d","a","t","a",":">>, <<"v","b","s","c","r","i","p","t",":">>,
      <<"f","i","l","e",":">>, <<"f","t","p",":">>, <<":">> }

UrlRestParts ==
    { <<>>, <<"x">>, <<"/","x">>, <<".","/","x">>, <<".",".","/","x">>,
      <<"p","a","t","h","/","t","o","/","p","a","g","e">>,
      <<"/","/">>, <<"/","/","x">>, <<"/","/","x",":","y">>, <<"/","/","a"," ","b">>,
      <<"#","f">> }

UrlInputs ==
    {l \o s \o r \o t : l \in Pads, s \in UrlSchemeParts, r \in UrlRestParts, t \in Pads}

-----------------------------------------------------------------------------
(* Parsed documents *)

Texts == {<<"H","i">>, <<"j","a","v","a","s","c","r","i","p","t",":","a"," ","o","n","l","o","a","d","=","b">>, <<"'","\"","&","<">>}
Comments == {<<"<","s","c","r","i","p","t">>}

DivShell == ElementNode("html", <<"d","i","v">>, <<>>, <<>>)
DivOnclickShell == ElementNode("html", <<"d","i","v">>, <<Attr(<<"o","n","c","l","i","c","k">>, <<"x">>)>>, <<>>)
ScriptShell == ElementNode("html", <<"s","c","r","i","p","t">>, <<>>, <<>>)
VideoShell == ElementNode("html", <<"v","i","d","e","o">>, <<>>, <<>>)
TableShell == ElementNode("html", <<"t","a","b","l","e">>, <<>>, <<>>)
SvgShell == ElementNode("svg", <<"s","v","g">>, <<>>, <<>>)
SvgAnchorShell ==
    ElementNode("svg", <<"a">>, <<Attr(<<"h","r","e","f">>, <<"j","a","v","a","s","c","r","i","p","t",":","x">>)>>, <<>>)

\* the nodes the parser puts in an HTML element, in a script element, in
\* an element of the SVG namespace and directly in a table (where it
\* leaves a script element and moves text and other elements out)
Leaves(ctx) == IF ctx = "html" THEN {TextNode(t) : t \in Texts}
                                        \cup {CommentNode(c) : c \in Comments}
               ELSE IF ctx = "table" THEN {}
               ELSE {TextNode(t) : t \in Texts}
Shells(ctx) == IF ctx = "html"
               THEN {DivShell, DivOnclickShell, ScriptShell, VideoShell, SvgShell,
                     TableShell}
               ELSE IF ctx = "svg" THEN {SvgAnchorShell}
               ELSE IF ctx = "table" THEN {ScriptShell} ELSE {}
ChildCtx(shell) == IF shell.ns = "svg" THEN "svg"
                   ELSE IF shell.localName = <<"s","c","r","i","p","t">> THEN "raw"
                   ELSE IF shell.localName = <<"t","a","b","l","e">> THEN "table" ELSE "html"
Contexts == {"html", "raw", "svg", "table"}

\* the parser never leaves two Text nodes next to each other, and the
\* content of a script element is at most one Text node
Follows(t, forest, ctx) ==
    /\ ctx = "raw" => forest = <<>>
    /\ (t.kind = "text" /\ forest # <<>>) => forest[1].kind # "text"

\* table[k + 1][ctx] holds the forests of exactly k nodes
TreesOfSize(j, ctx, table) ==
    (IF j = 1 THEN Leaves(ctx) ELSE {})
        \cup UNION {{[sh EXCEPT !.children = kids] : kids \in table[j][ChildCtx(sh)]}
                        : sh \in Shells(ctx)}

ForestsOfSize(k, ctx, table) ==
    UNION {UNION {{<<t>> \o f : f \in {g \in table[k - j + 1][ctx] : Follows(t, g, ctx)}}
                     : t \in TreesOfSize(j, ctx, table)}
              : j \in 1..k}

RECURSIVE BuildForests(_, _)
BuildForests(k, table) ==
    IF k > MaxNodes THEN table
    ELSE BuildForests(k + 1,
             Append(table, [ctx \in Contexts |-> ForestsOfSize(k, ctx, table)]))

ForestTable == BuildForests(1, <<[ctx \in Contexts |-> {<<>>}]>>)

\* documents of at most MaxNodes nodes
StructDocs == UNION {ForestTable[k]["html"] : k \in 1..(MaxNodes + 1)}

AttrPool ==
    << Attr(<<"o","n","c","l","i","c","k">>, <<"x">>), Attr(<<"s","t","y","l","e">>, <<"x">>),
       Attr(<<"h","r","e","f">>, <<"h","t","t","p","s",":","/","/","x">>), Attr(<<"h","r","e","f">>, <<"j","a","v","a","s","c","r","i","p","t",":","x">>),
       Attr(<<"h","r","e","f">>, <<"/","x">>),
       Attr(<<"s","r","c">>, <<"h","t","t","p","s",":","/","/","x">>), Attr(<<"s","r","c">>, <<"j","a","v","a","s","c","r","i","p","t",":","x">>),
       Attr(<<"t","a","r","g","e","t">>, <<"_","b","l","a","n","k">>), Attr(<<"t","a","r","g","e","t">>, <<"_","B","L","A","N","K">>),
       Attr(<<"t","a","r","g","e","t">>, <<"_","s","e","l","f">>),
       Attr(<<"r","e","l">>, <<"e","x","t","e","r","n","a","l">>),
       Attr(<<"r","e","l">>, <<" ","n","o","o","p","e","n","e","r","\t","e","x","t","e","r","n","a","l"," "," ","e","x","t","e","r","n","a","l">>),
       Attr(<<"t","i","t","l","e">>, <<"<","s","c","r","i","p","t"," ","s","t","y","l","e","=","x">>),
       Attr(<<"d","a","t","a","-","x">>, <<"j","a","v","a","s","c","r","i","p","t",":","x">>),
       Attr(<<"c","i","t","e">>, <<"h","t","t","p","s",":","/","/","x">>),
       Attr(<<"x","y","z">>, <<"x">>) >>

RECURSIVE PickAttrs(_, _)
\* the attributes of the pool at the indices of picked, in pool order
PickAttrs(picked, from) ==
    IF from > Len(AttrPool) THEN <<>>
    ELSE (IF from \in picked THEN <<AttrPool[from]>> ELSE <<>>)
             \o PickAttrs(picked, from + 1)

\* an element has no two attributes of the same name
AttrLists ==
    {PickAttrs(picked, 1) :
        picked \in {s \in SUBSET (1..Len(AttrPool)) :
                      /\ Cardinality(s) <= MaxAttrs
                      /\ \A i, j \in s : i # j => AttrPool[i].name # AttrPool[j].name}}

AttrTags == {<<"a">>, <<"i","m","g">>, <<"b","l","o","c","k","q","u","o","t","e">>, <<"d","i","v">>}

\* documents of one element
AttrDocs == {<<ElementNode("html", tag, attrs, <<>>)>> : tag \in AttrTags, attrs \in AttrLists}

Docs == StructDocs \cup AttrDocs

-----------------------------------------------------------------------------
(* Actions a server can send *)

NavHrefs ==
    {JsString(<<"h","t","t","p","s",":","/","/","x">>), JsString(<<"j","a","v","a","s","c","r","i","p","t",":","x">>), JsString(<<" ","/","x"," ">>),
     JsString(<<>>), JsNumber}
NavTargets == {JsUndefined, JsString(<<"_","s","e","l","f">>), JsString(<<"_","b","l","a","n","k">>)}

LinkAction(href, target) ==
    JsAction(JsString(<<"l","i","n","k">>), JsString(<<"G","o">>), JsString(<<"p","r","i","m","a","r","y">>),
             href, target, JsUndefined)

Actions ==
    {LinkAction(h, JsUndefined) : h \in NavHrefs}
        \cup { LinkAction(JsString(<<"h","t","t","p","s",":","/","/","x">>), JsString(<<"_","b","l","a","n","k">>)),
               LinkAction(JsString(<<"j","a","v","a","s","c","r","i","p","t",":","x">>), JsString(<<"_","b","l","a","n","k">>)),
               LinkAction(JsString(<<"h","t","t","p","s",":","/","/","x">>), JsNull),
               LinkAction(JsString(<<"h","t","t","p","s",":","/","/","x">>), JsString(<<"t","o","p">>)),
               JsAction(JsString(<<"l","i","n","k">>), JsString(<<>>), JsString(<<"p","r","i","m","a","r","y">>),
                        JsString(<<"h","t","t","p","s",":","/","/","x">>), JsUndefined, JsUndefined),
               JsAction(JsString(<<"c","a","l","l","b","a","c","k">>), JsString(<<"D","o">>),
                        JsString(<<"s","e","c","o","n","d","a","r","y">>), JsUndefined, JsUndefined,
                        JsString(<<"a","1">>)),
               JsAction(JsString(<<"c","a","l","l","b","a","c","k">>), JsString(<<"D","o">>),
                        JsString(<<"s","e","c","o","n","d","a","r","y">>), JsString(<<"j","a","v","a","s","c","r","i","p","t",":","x">>),
                        JsUndefined, JsUndefined),
               JsUndefined, JsNull, JsNumber }

SecondActions ==
    {JsUndefined, LinkAction(JsString(<<"j","a","v","a","s","c","r","i","p","t",":","x">>), JsString(<<"_","b","l","a","n","k">>))}

\* the part of a message, and of a message-details response, that holds
\* the actions
Payloads ==
    {[primaryAction |-> p, secondaryAction |-> s] : p \in Actions, s \in SecondActions}

NavEnvs ==
    {BrowserEnv(HrefHttp, FALSE), BrowserEnv(HrefFile, FALSE), ServerEnv, BareWindowEnv}

-----------------------------------------------------------------------------
(* Responses and actions given to the validation functions *)

GoodLink == LinkAction(JsString(<<"h","t","t","p","s",":","/","/","x">>), JsString(<<"_","b","l","a","n","k">>))
UnsafeLink == LinkAction(JsString(<<"j","a","v","a","s","c","r","i","p","t",":","x">>), JsUndefined)
GoodCallback ==
    JsAction(JsString(<<"c","a","l","l","b","a","c","k">>), JsString(<<"D","o">>), JsString(<<"s","e","c","o","n","d","a","r","y">>),
             JsUndefined, JsUndefined, JsString(<<"a","1">>))

DetailsRecords ==
    {DetailsRecord(messageId, title, snippet, createdAt, bodyHtml, category,
                   primaryAction, secondaryAction) :
        messageId \in {JsString(<<"m","1">>), JsString(<<>>), JsUndefined},
        title \in {JsString(<<"T">>), JsNull, JsUndefined, JsNumber},
        snippet \in {JsString(<<"S">>), JsUndefined, JsNumber},
        createdAt \in {JsString(<<"2","0","2","4">>), JsString(<<>>)},
        bodyHtml \in {JsString(<<"<","p",">","H","i","<","/","p",">">>), JsNumber},
        category \in {JsNull, JsUndefined, JsNumber},
        primaryAction \in {JsUndefined, GoodLink, UnsafeLink, JsNull},
        secondaryAction \in {JsUndefined, GoodCallback, UnsafeLink}}

GoodRecord ==
    DetailsRecord(JsString(<<"m","1">>), JsString(<<"T">>), JsString(<<"S">>),
                  JsString(<<"2","0","2","4">>), JsString(<<"<","p",">","H","i","<","/","p",">">>), JsNull,
                  JsUndefined, JsUndefined)

\* values that are not objects
Primitives == {JsUndefined, JsNull, JsNumber, JsString(<<"s","t","r","i","n","g">>)}

ActionInputs ==
    {JsActionWith(kind, label, type, href, target, rel, id, actionId) :
        kind \in {JsString(<<"l","i","n","k">>), JsString(<<"c","a","l","l","b","a","c","k">>), JsNumber},
        label \in {JsString(<<"G","o">>), JsString(<<>>), JsUndefined},
        type \in {JsString(<<"p","r","i","m","a","r","y">>), JsString(<<"s","e","c","o","n","d","a","r","y">>), JsString(<<"x">>)},
        href \in {JsString(<<"h","t","t","p","s",":","/","/","x">>), JsString(<<"j","a","v","a","s","c","r","i","p","t",":","x">>),
                  JsString(<<>>), JsUndefined},
        target \in {JsUndefined, JsString(<<"_","b","l","a","n","k">>), JsString(<<"_","x">>),
                    JsString(<<"t","o","p">>), JsNull},
        rel \in {JsUndefined, JsString(<<"e","x","t","e","r","n","a","l">>), JsNumber},
        id \in {JsUndefined, JsString(<<"i","1">>), JsNumber},
        actionId \in {JsUndefined, JsString(<<"a","1">>), JsString(<<>>)}}
        \cup Primitives

ValEnvs == {BrowserEnv(HrefHttp, FALSE), ServerEnv}

-----------------------------------------------------------------------------
(* Messages a server holds and props a host passes *)

BodyDocs ==
    { <<ElementNode("html", <<"d","i","v">>, <<>>, <<TextNode(<<"H","i">>)>>)>>,
      <<ElementNode("html", <<"s","c","r","i","p","t">>, <<>>, <<TextNode(<<"x">>)>>), TextNode(<<"H","i">>)>>,
      <<ElementNode("html", <<"a">>, <<Attr(<<"h","r","e","f">>, <<"j","a","v","a","s","c","r","i","p","t",":","x">>)>>,
                    <<TextNode(<<"H","i">>)>>)>> }

BodyHtmls == {SerializeChildren(BodyOf(doc), FALSE) : doc \in BodyDocs}

\* the content of doc.body that DOMParser returns for a body of BodyHtmls
ParseBody(html) ==
    CHOOSE doc \in BodyDocs : SerializeChildren(BodyOf(doc), FALSE) = html

MalformedLink ==
    JsAction(JsString(<<"l","i","n","k">>), JsString(<<>>), JsString(<<"p","r","i","m","a","r","y">>),
             JsString(<<"h","t","t","p","s",":","/","/","x">>), JsUndefined, JsUndefined)

FirstId == JsString(<<"m","1">>)
SecondId == JsString(<<"m","2">>)
MessageIds == {FirstId, SecondId}

\* the responses for the first message
FirstMessages ==
    {DetailsRecord(FirstId, JsString(<<"T">>), JsString(<<"S">>), JsString(<<"2","0","2","4">>),
                   JsString(bodyHtml), JsNull, primaryAction, secondaryAction) :
        bodyHtml \in BodyHtmls,
        primaryAction \in {JsUndefined, GoodLink, UnsafeLink, MalformedLink,
                           JsNull, JsNumber},
        secondaryAction \in {JsUndefined, GoodCallback, UnsafeLink}}

\* a response for the first message that fails the schema validation: its
\* messageId is empty
EmptyIdMessage ==
    DetailsRecord(JsString(<<>>), JsString(<<"T">>), JsString(<<"S">>), JsString(<<"2","0","2","4">>),
                  JsString(<<"<","d","i","v",">","H","i","<","/","d","i","v",">">>), JsNull, GoodLink, JsUndefined)

\* the response for the second message
SecondMessage ==
    DetailsRecord(SecondId, JsNull, JsNull, JsString(<<"2","0","2","5">>),
                  JsString(<<>>), JsNull, JsUndefined, GoodLink)

\* what the host passes as sanitizeHtml: nothing, or (html) => html
SanitizeHtmlProps == {"undefined", "identity"}

\* a host function applied to a string
ApplyHostSanitizer(sanitizer, html) == html

\* the sanitizer that renders the body without sanitizing
sanitizedBody_raw(dat, sanitizeHtmlProp, e) == BodyHtmlOf(dat)

\* sanitizedBody: (sanitizeHtmlProp ?? defaultSanitizeHtml)(data?.bodyHtml ?? "")
sanitizedBody(dat, sanitizeHtmlProp, e) ==
    IF sanitizeHtmlProp = "undefined"
    THEN sanitizeHtml(BodyHtmlOf(dat),
                      IF BodyHtmlOf(dat) = <<>> THEN <<>> ELSE ParseBody(BodyHtmlOf(dat)),
                      e).html
    ELSE ApplyHostSanitizer(sanitizeHtmlProp, BodyHtmlOf(dat))

DetailsEnvs == {BrowserEnv(HrefHttp, FALSE), NoParserEnv}

-----------------------------------------------------------------------------
(* The inputs of the Feed specification *)

\* the type props that Inbox passes for its tabs
InboxTabTypes == {TypeArray(<<Read, Unread>>), TypeOne(Unread)}
FeedTypeProps == InboxTabTypes \cup {TypeOne(Archived)}

\* the messages of the server: two ids, the second one created later;
\* the first one read or unread and archived or not, the second one
\* unread and not archived
FeedIds == {"a", "b"}
CreatedAtOf(id) == IF id = "a" THEN 1 ELSE 2
ServerMessages ==
    {FeedMessageOf("a", CreatedAtOf("a"), readAt, archivedAt) :
        readAt \in BOOLEAN, archivedAt \in BOOLEAN}
        \cup {FeedMessageOf("b", CreatedAtOf("b"), FALSE, FALSE)}

\* whether the server lists a message under the status filters of a call
MatchesFilters(m, filters) ==
    \/ filters = <<>>
    \/ m.archivedAt /\ InSeq(Archived, filters)
    \/ ~m.archivedAt /\ m.readAt /\ InSeq(Read, filters)
    \/ ~m.archivedAt /\ ~m.readAt /\ InSeq(Unread, filters)

\* the pages the server can answer a call with: up to two messages with
\* different ids in any order
PagesOf(filters) ==
    LET ms == {m \in ServerMessages : MatchesFilters(m, filters)}
    IN {<<>>} \cup {<<m>> : m \in ms}
           \cup {<<m, n>> : <<m, n>> \in {pair \in ms \X ms : pair[1].id # pair[2].id}}
PagesByFilters ==
    [filters \in {ListFilters(normalizeTypeFilters(typeProp)) : typeProp \in FeedTypeProps}
        |-> PagesOf(filters)]
PagesFor(filters) == PagesByFilters[filters]

\* the cursor of a page, or none
Cursors == {JsNull, JsString(<<"c","1">>)}

-----------------------------------------------------------------------------
(* The inputs of the Inbox specification *)

\* bellProps: none, or an unread count and a class name
NoBellProps == <<>>
CustomBellProps == [unread |-> 99, className |-> "custom-bell"]
BellPropsValues == {NoBellProps, CustomBellProps}

\* the messages of the Feed: one with a body, one without a body, one
\* with an empty messageId
FeedMessages ==
    {[hasBody |-> TRUE, messageId |-> FirstId],
     [hasBody |-> FALSE, messageId |-> SecondId],
     [hasBody |-> TRUE, messageId |-> JsString(<<>>)]}

\* what a controlled dialog without a trigger passes to onOpenChange
DialogOpenChanges == {FALSE}

-----------------------------------------------------------------------------
(* Calls of normalizeSafeUrl and isSafeUrl *)

UrlInit ==
    /\ env \in UrlEnvs
    /\ urlRaw \in UrlInputs
    /\ urlRes = UrlUnset
    /\ urlSafe = "unset"
    /\ htmlIn = <<>> /\ parsedBody = <<>> /\ htmlRes = HtmlUnset /\ htmlRes2 = HtmlUnset
    /\ NavIdle /\ ValIdle /\ ClientIdle /\ DetailsIdle /\ InboxIdle /\ FeedIdle

CallNormalizeSafeUrl ==
    /\ urlRes = UrlUnset
    /\ urlRes' = normalizeSafeUrl(urlRaw, env)
    /\ UNCHANGED <<env, feedVars, inboxVars, urlRaw, urlSafe, htmlVars, navVars, valVars, clientVars, detailsVars>>

CallIsSafeUrl ==
    /\ urlSafe = "unset"
    /\ urlSafe' = IF isSafeUrl(urlRaw, env) THEN "true" ELSE "false"
    /\ UNCHANGED <<env, feedVars, inboxVars, urlRaw, urlRes, htmlVars, navVars, valVars, clientVars, detailsVars>>

UrlNext == CallNormalizeSafeUrl \/ CallIsSafeUrl

SpecUrl == UrlInit /\ [][UrlNext]_vars

-----------------------------------------------------------------------------
(* Calls of sanitizeHtml *)

HtmlInit ==
    /\ env \in HtmlEnvs
    /\ parsedBody \in Docs
    /\ htmlIn = SerializeChildren(BodyOf(parsedBody), FALSE)
    /\ htmlRes = HtmlUnset
    /\ htmlRes2 = HtmlUnset
    /\ urlRaw = <<>> /\ urlRes = UrlUnset /\ urlSafe = "unset"
    /\ NavIdle /\ ValIdle /\ ClientIdle /\ DetailsIdle /\ InboxIdle /\ FeedIdle

CallSanitizeHtml ==
    /\ ~htmlRes.set
    /\ htmlRes' = sanitizeHtml(htmlIn, parsedBody, env)
    /\ UNCHANGED <<env, feedVars, inboxVars, urlVars, navVars, valVars, clientVars, detailsVars, htmlIn, parsedBody, htmlRes2>>

\* sanitizeHtml on the markup it returned; with a DOM parser the second
\* pass runs on what the parser reads back from that markup
CallSanitizeHtmlAgain ==
    /\ htmlRes.set
    /\ ~htmlRes2.set
    /\ htmlRes2' = sanitizeHtml(htmlRes.html, ParseSerialized(htmlRes.tree), env)
    /\ UNCHANGED <<env, feedVars, inboxVars, urlVars, navVars, valVars, clientVars, detailsVars, htmlIn, parsedBody, htmlRes>>

HtmlNext == CallSanitizeHtml \/ CallSanitizeHtmlAgain

SpecHtml == HtmlInit /\ [][HtmlNext]_vars

-----------------------------------------------------------------------------
(* Clicks on the action buttons of Feed and MessageDetails *)

NavInit ==
    /\ env \in NavEnvs
    /\ message \in (IF env.hasDocument THEN Payloads ELSE {NoActions})
    /\ result \in (IF env.hasDocument THEN Payloads ELSE {NoActions})
    \* the handlers of the two components share no state
    /\ message = NoActions \/ result = NoActions
    /\ detailsData = JsNull
    /\ lastNav = NoClick
    /\ urlRaw = <<>> /\ urlRes = UrlUnset /\ urlSafe = "unset"
    /\ htmlIn = <<>> /\ parsedBody = <<>> /\ htmlRes = HtmlUnset /\ htmlRes2 = HtmlUnset
    /\ ValIdle /\ ClientIdle /\ DetailsIdle /\ InboxIdle /\ FeedIdle

\* MessageDetails: client.getMessage resolved while the component is mounted
DetailsLoad ==
    /\ env.hasDocument
    /\ detailsData = JsNull
    /\ detailsData' = sanitizeMessageDetailsResponse(result, env)
    /\ UNCHANGED <<env, feedVars, inboxVars, urlVars, htmlVars, valVars, clientVars, detailsVars, message, result, lastNav>>

\* a click on an action button that FeedMessage renders
FeedClick ==
    /\ env.hasDocument
    /\ \E which \in {"primaryAction", "secondaryAction"}, opened \in BOOLEAN :
          /\ Truthy(message[which])
          /\ lastNav' = [from |-> "feed",
                         asked |-> IF message[which].t = "object"
                                   THEN message[which].href ELSE JsUndefined,
                         target |-> IF message[which].t = "object"
                                    THEN message[which].target ELSE JsUndefined,
                         effect |-> ActionClick(message[which], opened, env)]
    /\ UNCHANGED <<env, feedVars, inboxVars, urlVars, htmlVars, valVars, clientVars, detailsVars, message, result, detailsData>>

\* a click on an action button that MessageDetails renders
DetailsClick ==
    /\ env.hasDocument
    /\ detailsData # JsNull
    /\ \E which \in {"primaryAction", "secondaryAction"}, opened \in BOOLEAN :
          /\ Truthy(detailsData[which])
          /\ lastNav' = [from |-> "details",
                         asked |-> IF detailsData[which].t = "object"
                                   THEN detailsData[which].href ELSE JsUndefined,
                         target |-> IF detailsData[which].t = "object"
                                    THEN detailsData[which].target ELSE JsUndefined,
                         effect |-> ActionClick(detailsData[which], opened, env)]
    /\ UNCHANGED <<env, feedVars, inboxVars, urlVars, htmlVars, valVars, clientVars, detailsVars, message, result, detailsData>>

\* a call of safeNavigate by the host application
CallSafeNavigate ==
    \E href \in NavHrefs, target \in NavTargets, opened \in BOOLEAN :
       /\ lastNav' = [from |-> "call", asked |-> href, target |-> target,
                      effect |-> safeNavigate(href, target, opened, env)]
       /\ UNCHANGED <<env, feedVars, inboxVars, urlVars, htmlVars, valVars, clientVars, detailsVars, message, result, detailsData>>

NavNext == DetailsLoad \/ FeedClick \/ DetailsClick \/ CallSafeNavigate

SpecNav == NavInit /\ [][NavNext]_vars

-----------------------------------------------------------------------------
(* Calls of the validation functions *)

ValInit ==
    /\ env \in ValEnvs
    /\ \/ /\ objects \in {<<r>> : r \in DetailsRecords}
          /\ valInput = JsRef(1)
          /\ actInput = JsUndefined /\ actRes = "none"
       \/ /\ objects = <<GoodRecord>>
          /\ valInput \in Primitives
          /\ actInput = JsUndefined /\ actRes = "none"
       \/ /\ objects = <<GoodRecord>>
          /\ valInput = JsRef(1)
          /\ actInput \in ActionInputs /\ actRes = "unset"
    /\ valRes = NoResult
    /\ sanRes = JsUndefined
    /\ urlRaw = <<>> /\ urlRes = UrlUnset /\ urlSafe = "unset"
    /\ htmlIn = <<>> /\ parsedBody = <<>> /\ htmlRes = HtmlUnset /\ htmlRes2 = HtmlUnset
    /\ NavIdle /\ ClientIdle /\ DetailsIdle /\ InboxIdle /\ FeedIdle

CallValidateMessageDetailsResponse ==
    /\ valRes = NoResult
    /\ actRes = "none"
    /\ valRes' = validateMessageDetailsResponse(valInput, objects, env)
    /\ UNCHANGED <<env, feedVars, inboxVars, urlVars, htmlVars, navVars, clientVars, detailsVars, objects, valInput, actInput,
                   actRes, sanRes>>

CallValidateAction ==
    /\ actRes = "unset"
    /\ actRes' = IF validateAction(actInput, env) THEN "true" ELSE "false"
    /\ UNCHANGED <<env, feedVars, inboxVars, urlVars, htmlVars, navVars, clientVars, detailsVars, objects, valInput, valRes,
                   actInput, sanRes>>

CallSanitizeMessageDetailsResponse ==
    /\ sanRes = JsUndefined
    /\ actRes = "none"
    /\ objects' = sanitizeOnHeap(valInput, objects, env).objects
    /\ sanRes' = sanitizeOnHeap(valInput, objects, env).result
    /\ UNCHANGED <<env, feedVars, inboxVars, urlVars, htmlVars, navVars, clientVars, detailsVars, valInput, valRes, actInput,
                   actRes>>

ValNext ==
    \/ CallValidateMessageDetailsResponse
    \/ CallValidateAction
    \/ CallSanitizeMessageDetailsResponse

SpecVal == ValInit /\ [][ValNext]_vars

-----------------------------------------------------------------------------
(* Calls of request of the member client *)

ClientInit ==
    /\ tokenManager \in {StaticTokenManager, DynamicTokenManager}
    /\ onAuthError \in BOOLEAN
    /\ requests = [r \in 1..MaxRequests |-> IdleRequest]
    /\ env = ServerEnv
    /\ urlRaw = <<>> /\ urlRes = UrlUnset /\ urlSafe = "unset"
    /\ htmlIn = <<>> /\ parsedBody = <<>> /\ htmlRes = HtmlUnset /\ htmlRes2 = HtmlUnset
    /\ NavIdle /\ ValIdle /\ DetailsIdle /\ InboxIdle /\ FeedIdle

\* request(path, init) up to the first await: tokenManager.get() is called
CallRequest(r) ==
    /\ requests[r].pc = "idle"
    /\ \E got \in TokenManagerGet(tokenManager, "token1") :
          /\ tokenManager' = got[1]
          /\ requests' = [requests EXCEPT ![r] =
                [@ EXCEPT !.pc = "token1", !.awaited = got[2], !.gets = 1]]
    /\ UNCHANGED <<env, feedVars, inboxVars, urlVars, htmlVars, navVars, valVars, detailsVars, onAuthError>>

\* the outer catch: on an Error of status 401 the token is cleared and
\* asked for again, any other value is thrown to the caller
CatchFirst(r, error) ==
    IF RetryOn(error)
    THEN \E got \in TokenManagerGet(TokenManagerClear(tokenManager), "token2") :
            /\ tokenManager' = got[1]
            /\ requests' = [requests EXCEPT ![r] =
                  [@ EXCEPT !.pc = "token2", !.awaited = got[2],
                            !.gets = @ + 1, !.clears = @ + 1,
                            !.firstError = error]]
    ELSE /\ requests' = [requests EXCEPT ![r] =
                [@ EXCEPT !.pc = "rejected", !.thrown = error,
                          !.firstError = error]]
         /\ UNCHANGED tokenManager

\* the inner catch
CatchRetry(r, retryError) ==
    /\ requests' = [requests EXCEPT ![r] =
          [@ EXCEPT !.pc = "rejected", !.thrown = retryError,
                    !.authErrors = AuthErrorsAfter(requests[r], retryError)]]
    /\ UNCHANGED tokenManager

\* the first tokenManager.get() settles: makeRequest(token) calls fetch, or
\* the rejection is caught
FirstTokenSettles(r) ==
    /\ requests[r].pc = "token1"
    /\ IF requests[r].awaited.ok
       THEN /\ requests' = [requests EXCEPT ![r] =
                  [@ EXCEPT !.pc = "fetch1",
                            !.tokens = Append(@, requests[r].awaited.token)]]
            /\ UNCHANGED tokenManager
       ELSE CatchFirst(r, requests[r].awaited.error)
    /\ UNCHANGED <<env, feedVars, inboxVars, urlVars, htmlVars, navVars, valVars, detailsVars, onAuthError>>

\* the first fetch settles
FirstFetchSettles(r) ==
    /\ requests[r].pc = "fetch1"
    /\ \E status \in FetchResults :
          IF status = 200
          THEN /\ requests' = [requests EXCEPT ![r] = [@ EXCEPT !.pc = "resolved"]]
               /\ UNCHANGED tokenManager
          ELSE CatchFirst(r, RequestError(status, "fetch1"))
    /\ UNCHANGED <<env, feedVars, inboxVars, urlVars, htmlVars, navVars, valVars, detailsVars, onAuthError>>

\* the second tokenManager.get() settles
RetryTokenSettles(r) ==
    /\ requests[r].pc = "token2"
    /\ IF requests[r].awaited.ok
       THEN /\ requests' = [requests EXCEPT ![r] =
                  [@ EXCEPT !.pc = "fetch2",
                            !.tokens = Append(@, requests[r].awaited.token)]]
            /\ UNCHANGED tokenManager
       ELSE CatchRetry(r, requests[r].awaited.error)
    /\ UNCHANGED <<env, feedVars, inboxVars, urlVars, htmlVars, navVars, valVars, detailsVars, onAuthError>>

\* the second fetch settles
RetryFetchSettles(r) ==
    /\ requests[r].pc = "fetch2"
    /\ \E status \in FetchResults :
          IF status = 200
          THEN /\ requests' = [requests EXCEPT ![r] = [@ EXCEPT !.pc = "resolved"]]
               /\ UNCHANGED tokenManager
          ELSE CatchRetry(r, RequestError(status, "fetch2"))
    /\ UNCHANGED <<env, feedVars, inboxVars, urlVars, htmlVars, navVars, valVars, detailsVars, onAuthError>>

ClientNext ==
    \E r \in 1..MaxRequests :
        \/ CallRequest(r)
        \/ FirstTokenSettles(r)
        \/ FirstFetchSettles(r)
        \/ RetryTokenSettles(r)
        \/ RetryFetchSettles(r)

SpecClient == ClientInit /\ [][ClientNext]_vars

-----------------------------------------------------------------------------
(* The life of a MessageDetails *)

\* after the first render: state at its initial values, the effect to run
DetailsInit ==
    /\ env \in DetailsEnvs
    /\ inbox \in {[id \in MessageIds |->
                      IF id = FirstId THEN first ELSE SecondMessage] :
                     first \in FirstMessages \cup {EmptyIdMessage}}
    /\ mounted = TRUE
    /\ props \in {MessageDetailsProps(id, sanitizer) :
                     id \in MessageIds \cup {JsNull}, sanitizer \in SanitizeHtmlProps}
    /\ isLoading = FALSE
    /\ errorMessage = FALSE
    /\ effectPending = TRUE
    /\ fetches = <<>>
    /\ message = NoActions /\ result = NoActions
    /\ detailsData = JsNull /\ lastNav = NoClick
    /\ urlRaw = <<>> /\ urlRes = UrlUnset /\ urlSafe = "unset"
    /\ htmlIn = <<>> /\ parsedBody = <<>> /\ htmlRes = HtmlUnset /\ htmlRes2 = HtmlUnset
    /\ ValIdle /\ ClientIdle /\ InboxIdle /\ FeedIdle

\* the host renders MessageDetails with another messageId; effects of the
\* render before have run
ChangeMessageId ==
    /\ mounted
    /\ ~effectPending
    /\ Len(fetches) < MaxFetches
    /\ \E id \in MessageIds \cup {JsNull} :
          /\ id # props.messageId
          /\ props' = [props EXCEPT !.messageId = id]
    /\ effectPending' = TRUE
    /\ UNCHANGED <<env, feedVars, inboxVars, urlVars, htmlVars, navVars, valVars, clientVars, inbox,
                   mounted, isLoading, errorMessage, fetches>>

\* the effect on [client, messageId]: the cleanup of its last run, then
\* its body
RunEffect ==
    /\ mounted
    /\ effectPending
    /\ effectPending' = FALSE
    /\ detailsData' = JsNull
    /\ errorMessage' = FALSE
    /\ IF ~Truthy(props.messageId)
       THEN /\ isLoading' = FALSE
            /\ fetches' = Cleanup(fetches)
       ELSE /\ isLoading' = TRUE
            /\ fetches' = Append(Cleanup(fetches),
                                 FetchRun(props.messageId, TRUE, "pending"))
    /\ UNCHANGED <<env, feedVars, inboxVars, urlVars, htmlVars, valVars, clientVars, message, result,
                   lastNav, inbox, mounted, props>>

\* client.getMessage(messageId) resolves
FetchResolves ==
    \E f \in DOMAIN fetches :
       /\ fetches[f].status = "pending"
       /\ IF fetches[f].isMounted
          THEN /\ detailsData' =
                     sanitizeMessageDetailsResponse(inbox[fetches[f].messageId], env)
               /\ isLoading' = FALSE
               /\ fetches' = [fetches EXCEPT ![f].status = "resolved"]
          ELSE /\ fetches' = [fetches EXCEPT ![f].status = "ignored"]
               /\ UNCHANGED <<detailsData, isLoading>>
       /\ UNCHANGED <<env, feedVars, inboxVars, urlVars, htmlVars, valVars, clientVars, message, result,
                      lastNav, inbox, mounted, props, errorMessage, effectPending>>

\* client.getMessage(messageId) rejects
FetchRejects ==
    \E f \in DOMAIN fetches :
       /\ fetches[f].status = "pending"
       /\ IF fetches[f].isMounted
          THEN /\ errorMessage' = TRUE
               /\ detailsData' = JsNull
               /\ isLoading' = FALSE
               /\ fetches' = [fetches EXCEPT ![f].status = "rejected"]
          ELSE /\ fetches' = [fetches EXCEPT ![f].status = "ignored"]
               /\ UNCHANGED <<detailsData, isLoading, errorMessage>>
       /\ UNCHANGED <<env, feedVars, inboxVars, urlVars, htmlVars, valVars, clientVars, message, result,
                      lastNav, inbox, mounted, props, effectPending>>

\* MessageDetails is unmounted: the cleanup of the effect runs
Unmount ==
    /\ mounted
    /\ ~effectPending
    /\ mounted' = FALSE
    /\ fetches' = Cleanup(fetches)
    /\ UNCHANGED <<env, feedVars, inboxVars, urlVars, htmlVars, navVars, valVars, clientVars, inbox,
                   props, isLoading, errorMessage, effectPending>>

DetailsNext ==
    \/ ChangeMessageId
    \/ RunEffect
    \/ FetchResolves
    \/ FetchRejects
    \/ Unmount

SpecDetails == DetailsInit /\ [][DetailsNext]_vars

-----------------------------------------------------------------------------
(* The life of a Feed *)

\* typeFilters, listFilters and filterKey for each type prop
TypeFiltersOf == [typeProp \in FeedTypeProps |-> normalizeTypeFilters(typeProp)]
ListFiltersOf == [typeProp \in FeedTypeProps |-> ListFilters(TypeFiltersOf[typeProp])]
FilterKeyOf == [typeProp \in FeedTypeProps |-> FilterKey(TypeFiltersOf[typeProp])]

\* what the render reads from the cache
CurrentKey == FilterKeyOf[feedType]
CurrentEntry == EntryOf(stateByFilter, CurrentKey)

\* the list of messages is rendered
ListRendered ==
    /\ feedMounted
    /\ ~(CurrentEntry.isLoading \/ ~CurrentEntry.hasFetched)
    /\ CurrentEntry.error = JsNull
    /\ CurrentEntry.messages # <<>>

\* after the first render: an empty cache, the fetch effect to run
FeedInit ==
    /\ env = BrowserEnv(HrefHttp, FALSE)
    /\ feedMounted = TRUE
    /\ feedType \in FeedTypeProps
    /\ stateByFilter = <<>>
    /\ listCalls = EmptyBag
    /\ feedEvent = NoFeedEvent
    /\ urlRaw = <<>> /\ urlRes = UrlUnset /\ urlSafe = "unset"
    /\ htmlIn = <<>> /\ parsedBody = <<>> /\ htmlRes = HtmlUnset /\ htmlRes2 = HtmlUnset
    /\ NavIdle /\ ValIdle /\ ClientIdle /\ DetailsIdle /\ InboxIdle

\* the fetch effect, for an entry that is neither fetched nor loading
RunFetchEffect ==
    /\ feedMounted
    /\ ~(CurrentEntry.hasFetched \/ CurrentEntry.isLoading)
    /\ stateByFilter' = WithEntry(stateByFilter, CurrentKey,
          [CurrentEntry EXCEPT !.isLoading = TRUE, !.error = JsNull,
                               !.isLoadingMore = FALSE])
    /\ listCalls' = listCalls (+) SetToBag(
          {ListCall("fetch", CurrentKey, ListFiltersOf[feedType])})
    /\ UNCHANGED <<env, urlVars, htmlVars, navVars, valVars, clientVars, detailsVars,
                   inboxVars, feedMounted, feedType>>
    /\ feedEvent' = NoFeedEvent

\* listInbox of the fetch effect resolves
FetchMessagesResolves(call, page, cursor) ==
    /\ call.kind = "fetch"
    /\ page \in PagesFor(call.filters)
    /\ IF ~feedMounted
       THEN /\ listCalls' = listCalls (-) SetToBag({call})
            /\ feedEvent' = NoFeedEvent
            /\ UNCHANGED stateByFilter
       ELSE LET requestKey == call.key
                prevEntry == EntryOf(stateByFilter, requestKey)
            IN /\ listCalls' = listCalls (-) SetToBag({call})
               /\ stateByFilter' = WithEntry(stateByFilter, requestKey,
                     [prevEntry EXCEPT !.messages = sortAndDedupeMessages(page),
                                       !.nextCursor = cursor,
                                       !.error = JsNull,
                                       !.isLoading = FALSE,
                                       !.isLoadingMore = FALSE,
                                       !.hasFetched = TRUE])
               /\ feedEvent' = NoFeedEvent
    /\ UNCHANGED <<env, urlVars, htmlVars, navVars, valVars, clientVars, detailsVars,
                   inboxVars, feedMounted, feedType>>

\* listInbox of the fetch effect rejects
FetchMessagesRejects(call) ==
    /\ call.kind = "fetch"
    /\ IF ~feedMounted
       THEN /\ listCalls' = listCalls (-) SetToBag({call})
            /\ UNCHANGED stateByFilter
       ELSE LET requestKey == call.key
                prevEntry == EntryOf(stateByFilter, requestKey)
            IN /\ listCalls' = listCalls (-) SetToBag({call})
               /\ stateByFilter' = WithEntry(stateByFilter, requestKey,
                     [prevEntry EXCEPT !.messages = <<>>,
                                       !.nextCursor = JsNull,
                                       !.error = JsString(<<"F","a","i","l","e","d"," ","t","o"," ","l","o","a","d"," ","i","n","b","o","x">>),
                                       !.isLoading = FALSE,
                                       !.isLoadingMore = FALSE,
                                       !.hasFetched = TRUE])
    /\ UNCHANGED <<env, urlVars, htmlVars, navVars, valVars, clientVars, detailsVars,
                   inboxVars, feedMounted, feedType>>
    /\ feedEvent' = NoFeedEvent

\* how many calls of handleLoadMore for the current key have not settled
PendingMore ==
    CopiesIn(ListCall("more", CurrentKey, ListFiltersOf[feedType]),
             listCalls)

\* handleLoadMore up to its await.  The handler of the render before the
\* last may run: it still reads isLoadingMore = false and the cursor of a
\* call that is pending for the same key
HandleLoadMore(stale) ==
    /\ ListRendered
    /\ PendingMore < MaxPendingMore
    /\ CurrentEntry.nextCursor # JsNull
    /\ IF stale
       THEN CurrentEntry.isLoadingMore /\ PendingMore > 0
       ELSE ~CurrentEntry.isLoadingMore
    /\ stateByFilter' = WithEntry(stateByFilter, CurrentKey,
          [CurrentEntry EXCEPT !.isLoadingMore = TRUE])
    /\ listCalls' = listCalls (+) SetToBag(
          {ListCall("more", CurrentKey, ListFiltersOf[feedType])})
    /\ UNCHANGED <<env, urlVars, htmlVars, navVars, valVars, clientVars, detailsVars,
                   inboxVars, feedMounted, feedType>>
    /\ feedEvent' = NoFeedEvent

\* listInbox of handleLoadMore resolves; a state update of an unmounted
\* component does nothing
LoadMoreResolves(call, page, cursor) ==
    /\ call.kind = "more"
    /\ page \in PagesFor(call.filters)
    /\ listCalls' = listCalls (-) SetToBag({call})
    /\ IF ~feedMounted
       THEN feedEvent' = NoFeedEvent /\ UNCHANGED stateByFilter
       ELSE LET requestKey == call.key
                prevEntry == EntryOf(stateByFilter, requestKey)
            IN /\ stateByFilter' = WithEntry(stateByFilter, requestKey,
                     [prevEntry EXCEPT
                         !.messages = sortAndDedupeMessages(prevEntry.messages \o page),
                         !.nextCursor = cursor,
                         !.isLoadingMore = FALSE])
               /\ feedEvent' = NoFeedEvent
    /\ UNCHANGED <<env, urlVars, htmlVars, navVars, valVars, clientVars, detailsVars,
                   inboxVars, feedMounted, feedType>>

\* listInbox of handleLoadMore rejects
LoadMoreRejects(call) ==
    /\ call.kind = "more"
    /\ listCalls' = listCalls (-) SetToBag({call})
    /\ IF ~feedMounted
       THEN UNCHANGED stateByFilter
       ELSE LET requestKey == call.key
                prevEntry == EntryOf(stateByFilter, requestKey)
            IN stateByFilter' = WithEntry(stateByFilter, requestKey,
                  [prevEntry EXCEPT !.isLoadingMore = FALSE])
    /\ UNCHANGED <<env, urlVars, htmlVars, navVars, valVars, clientVars, detailsVars,
                   inboxVars, feedMounted, feedType>>
    /\ feedEvent' = NoFeedEvent

\* the buttons of a FeedMessage
forceArchivedActions ==
    LET typeFilters == TypeFiltersOf[feedType]
    IN Len(typeFilters) = 1 /\ typeFilters[1] = Archived
ActionShown(kind, m) ==
    LET isArchived == forceArchivedActions \/ m.archivedAt
    IN CASE kind = "unarchive" -> isArchived
         [] kind = "markRead" -> ~isArchived /\ ~m.readAt
         [] kind = "markUnread" -> ~isArchived /\ m.readAt
         [] kind = "archive" -> ~isArchived

\* markMessageRead, markMessageUnread, archiveMessage or unarchiveMessage:
\* a button of a message of the list is clicked, the call of the client
\* resolves and the state is updated, or it rejects and the catch logs
\* the error
ClickAction(kind, id, resolves) ==
    /\ ListRendered
    /\ \E i \in DOMAIN CurrentEntry.messages :
          /\ CurrentEntry.messages[i].id = id
          /\ ActionShown(kind, CurrentEntry.messages[i])
    /\ IF ~resolves
       THEN /\ feedEvent' = NoFeedEvent
            /\ UNCHANGED stateByFilter
       ELSE /\ stateByFilter' =
                 CASE kind = "markRead" -> markMessageRead(stateByFilter, CurrentKey, id)
                   [] kind = "markUnread" -> markMessageUnread(stateByFilter, CurrentKey, id)
                   [] kind = "archive" -> archiveMessage(stateByFilter, CurrentKey, id)
                   [] kind = "unarchive" ->
                        unarchiveMessage(stateByFilter, CurrentKey, id,
                                         TypeFiltersOf[feedType])
            /\ feedEvent' = FeedEvent(kind, CurrentKey, id)
    /\ UNCHANGED <<env, urlVars, htmlVars, navVars, valVars, clientVars, detailsVars,
                   inboxVars, feedMounted, feedType, listCalls>>

\* the host renders the Feed with another type: Inbox changes between
\* its tabs "all" and "unread"
ChangeType(typeProp) ==
    /\ feedMounted
    /\ feedType \in InboxTabTypes /\ typeProp \in InboxTabTypes
    /\ typeProp # feedType
    /\ feedType' = typeProp
    /\ UNCHANGED <<env, urlVars, htmlVars, navVars, valVars, clientVars, detailsVars,
                   inboxVars, feedMounted, stateByFilter, listCalls>>
    /\ feedEvent' = NoFeedEvent

\* the Feed is unmounted: isComponentMountedRef.current = false, and its
\* state is gone
UnmountFeed ==
    /\ feedMounted
    /\ feedMounted' = FALSE
    /\ stateByFilter' = <<>>
    /\ UNCHANGED <<env, urlVars, htmlVars, navVars, valVars, clientVars, detailsVars,
                   inboxVars, feedType, listCalls>>
    /\ feedEvent' = NoFeedEvent

FeedNext ==
    \/ RunFetchEffect
    \/ \E call \in BagToSet(listCalls), cursor \in Cursors :
          \E page \in PagesFor(call.filters) :
             FetchMessagesResolves(call, page, cursor)
    \/ \E call \in BagToSet(listCalls) : FetchMessagesRejects(call)
    \/ \E stale \in BOOLEAN : HandleLoadMore(stale)
    \/ \E call \in BagToSet(listCalls), cursor \in Cursors :
          \E page \in PagesFor(call.filters) :
             LoadMoreResolves(call, page, cursor)
    \/ \E call \in BagToSet(listCalls) : LoadMoreRejects(call)
    \/ \E kind \in {"markRead", "markUnread", "archive", "unarchive"}, id \in FeedIds :
          \E resolves \in BOOLEAN : ClickAction(kind, id, resolves)
    \/ \E typeProp \in FeedTypeProps : ChangeType(typeProp)
    \/ UnmountFeed

SpecFeed == FeedInit /\ [][FeedNext]_vars

-----------------------------------------------------------------------------
(* The life of an Inbox *)

\* after the first render: state at its initial values, every effect to run
InboxInit ==
    /\ env = BrowserEnv(HrefHttp, FALSE)
    /\ inboxProps \in {InboxProps(v, bp) : v \in Variants, bp \in BellPropsValues}
    /\ isOpen = FALSE
    /\ preferencesDisplay = "none"
    /\ messageDetails = NoMessageDetails
    /\ meta = JsNull
    /\ derivedMeta = JsNull
    /\ isMetaLoading = FALSE
    /\ metaFetches = <<>>
    /\ changedDeps = {"client", "meta", "isOpen", "variant"}
    /\ lastEvent = InboxEvent("mount", NoFeedMessage)
    /\ urlRaw = <<>> /\ urlRes = UrlUnset /\ urlSafe = "unset"
    /\ htmlIn = <<>> /\ parsedBody = <<>> /\ htmlRes = HtmlUnset /\ htmlRes2 = HtmlUnset
    /\ NavIdle /\ ValIdle /\ ClientIdle /\ DetailsIdle /\ FeedIdle

\* Inbox is mounted and the effects of its last render have run
InboxSettled == lastEvent.kind # "unmount" /\ changedDeps = {}

\* the effects whose dependencies changed, in the order of their definition
RunEffects ==
    /\ lastEvent.kind # "unmount"
    /\ changedDeps # {}
    /\ LET onOpen == "isOpen" \in changedDeps
           onVariant == "variant" \in changedDeps
           onClient == "client" \in changedDeps
           cleaned == IF onOpen \/ onClient THEN CleanupOpenFetches(metaFetches)
                      ELSE metaFetches
           mountFetch == IF onClient THEN <<MetaFetch("mount", TRUE, "pending")>>
                         ELSE <<>>
           openFetch == IF (onOpen \/ onClient) /\ isOpen
                        THEN <<MetaFetch("open", TRUE, "pending")>> ELSE <<>>
           closed == IF onOpen \/ onVariant
                     THEN PreferencesOnClose(isOpen, inboxProps.variant, preferencesDisplay)
                     ELSE preferencesDisplay
           detailsClosed == IF onOpen THEN MessageDetailsOnClose(isOpen, messageDetails)
                            ELSE messageDetails
       IN /\ derivedMeta' = IF "meta" \in changedDeps THEN meta ELSE derivedMeta
          /\ preferencesDisplay' =
                IF onVariant THEN PreferencesOnVariant(inboxProps.variant, closed)
                ELSE closed
          /\ messageDetails' =
                IF onVariant THEN MessageDetailsOnVariant(inboxProps.variant, detailsClosed)
                ELSE detailsClosed
          /\ metaFetches' = cleaned \o mountFetch \o openFetch
          /\ isMetaLoading' = IF mountFetch \o openFetch # <<>> THEN TRUE ELSE isMetaLoading
    /\ changedDeps' = {}
    /\ UNCHANGED <<env, feedVars, urlVars, htmlVars, navVars, valVars, clientVars, detailsVars,
                   inboxProps, isOpen, meta, lastEvent>>

\* the container's onOpenChange = setIsOpen: the Bell is clicked, or the
\* container is dismissed
SetIsOpen(open) ==
    /\ InboxSettled
    /\ open # isOpen
    /\ open => Len(metaFetches) < MaxMetaFetches
    /\ isOpen' = open
    /\ changedDeps' = {"isOpen"}
    /\ lastEvent' = InboxEvent(IF open THEN "open" ELSE "close", NoFeedMessage)
    /\ UNCHANGED <<env, feedVars, urlVars, htmlVars, navVars, valVars, clientVars, detailsVars,
                   inboxProps, preferencesDisplay, messageDetails, meta, derivedMeta,
                   isMetaLoading, metaFetches>>

\* openPreferences, the onClick of the settings button
OpenPreferences ==
    /\ InboxSettled
    /\ isOpen /\ ActiveInlineView = "none"
    /\ messageDetails' = NoMessageDetails
    /\ IF inboxProps.variant = "popover"
       THEN /\ preferencesDisplay' = "dialog"
            /\ isOpen' = FALSE
            /\ changedDeps' = {"isOpen"}
       ELSE /\ preferencesDisplay' = "inline"
            /\ UNCHANGED <<isOpen, changedDeps>>
    /\ lastEvent' = InboxEvent("openPreferences", NoFeedMessage)
    /\ UNCHANGED <<env, feedVars, urlVars, htmlVars, navVars, valVars, clientVars, detailsVars,
                   inboxProps, meta, derivedMeta, isMetaLoading, metaFetches>>

\* closePreferences, the back button of the inline preferences
ClosePreferences ==
    /\ InboxSettled
    /\ isOpen /\ ActiveInlineView = "preferences"
    /\ preferencesDisplay' = "none"
    /\ lastEvent' = InboxEvent("closePreferences", NoFeedMessage)
    /\ UNCHANGED <<env, feedVars, urlVars, htmlVars, navVars, valVars, clientVars, detailsVars,
                   inboxProps, isOpen, messageDetails, meta, derivedMeta,
                   isMetaLoading, metaFetches, changedDeps>>

\* closeMessageDetails, the back button of the inline message details
CloseMessageDetails ==
    /\ InboxSettled
    /\ isOpen /\ ActiveInlineView = "message"
    /\ messageDetails' = NoMessageDetails
    /\ lastEvent' = InboxEvent("closeMessageDetails", NoFeedMessage)
    /\ UNCHANGED <<env, feedVars, urlVars, htmlVars, navVars, valVars, clientVars, detailsVars,
                   inboxProps, isOpen, preferencesDisplay, meta, derivedMeta,
                   isMetaLoading, metaFetches, changedDeps>>

\* handlePreferencesDialogOpenChange, the onOpenChange of PreferencesDialog
HandlePreferencesDialogOpenChange(isDialogOpen) ==
    /\ InboxSettled
    /\ ShouldRenderPreferencesDialog
    /\ IF isDialogOpen /\ isOpen
       THEN isOpen' = FALSE /\ changedDeps' = {"isOpen"}
       ELSE UNCHANGED <<isOpen, changedDeps>>
    /\ preferencesDisplay' = IF isDialogOpen THEN "dialog" ELSE "none"
    /\ lastEvent' = InboxEvent("preferencesDialogOpenChange", NoFeedMessage)
    /\ UNCHANGED <<env, feedVars, urlVars, htmlVars, navVars, valVars, clientVars, detailsVars,
                   inboxProps, messageDetails, meta, derivedMeta, isMetaLoading,
                   metaFetches>>

\* handleMessageSelect, the onMessageClick of the Feed
HandleMessageSelect(msg) ==
    /\ InboxSettled
    /\ isOpen /\ ActiveInlineView = "none"
    /\ IF ~CanOpenDetails(msg)
       THEN UNCHANGED <<preferencesDisplay, messageDetails, isOpen, changedDeps>>
       ELSE /\ preferencesDisplay' = "none"
            /\ IF inboxProps.variant = "popover"
               THEN /\ messageDetails' = [display |-> "dialog", messageId |-> msg.messageId]
                    /\ isOpen' = FALSE
                    /\ changedDeps' = {"isOpen"}
               ELSE /\ messageDetails' = [display |-> "inline", messageId |-> msg.messageId]
                    /\ UNCHANGED <<isOpen, changedDeps>>
    /\ lastEvent' = InboxEvent("messageSelect", msg)
    /\ UNCHANGED <<env, feedVars, urlVars, htmlVars, navVars, valVars, clientVars, detailsVars,
                   inboxProps, meta, derivedMeta, isMetaLoading, metaFetches>>

\* handleMessageDetailsDialogOpenChange, the onOpenChange of
\* MessageDetailsDialog
HandleMessageDetailsDialogOpenChange(isDialogOpen) ==
    /\ InboxSettled
    /\ ShouldRenderMessageDetailsDialog
    /\ messageDetails' = IF ~isDialogOpen THEN NoMessageDetails ELSE messageDetails
    /\ lastEvent' = InboxEvent("messageDetailsDialogOpenChange", NoFeedMessage)
    /\ UNCHANGED <<env, feedVars, urlVars, htmlVars, navVars, valVars, clientVars, detailsVars,
                   inboxProps, isOpen, preferencesDisplay, meta, derivedMeta,
                   isMetaLoading, metaFetches, changedDeps>>

\* the host renders Inbox with another variant
ChangeVariant(v) ==
    /\ InboxSettled
    /\ v # inboxProps.variant
    /\ inboxProps' = [inboxProps EXCEPT !.variant = v]
    /\ changedDeps' = {"variant"}
    /\ lastEvent' = InboxEvent("variant", NoFeedMessage)
    /\ UNCHANGED <<env, feedVars, urlVars, htmlVars, navVars, valVars, clientVars, detailsVars,
                   isOpen, preferencesDisplay, messageDetails, meta, derivedMeta,
                   isMetaLoading, metaFetches>>

\* client.getMeta resolves: the rest of the try block and the finally
\* block of fetchMeta, of the effect that made the call
MetaResolves(f) ==
    /\ f \in DOMAIN metaFetches
    /\ metaFetches[f].status = "pending"
    /\ IF ~metaFetches[f].isMounted
       THEN /\ metaFetches' = [metaFetches EXCEPT ![f].status = "ignored"]
            /\ UNCHANGED <<meta, derivedMeta, isMetaLoading, changedDeps>>
       ELSE /\ metaFetches' = [metaFetches EXCEPT ![f].status = "resolved"]
            /\ meta' = MetaResponse(f)
            /\ derivedMeta' = IF metaFetches[f].source = "mount" THEN MetaResponse(f)
                              ELSE derivedMeta
            /\ isMetaLoading' = FALSE
            /\ changedDeps' = IF meta' # meta THEN changedDeps \cup {"meta"}
                              ELSE changedDeps
    /\ UNCHANGED <<env, feedVars, urlVars, htmlVars, navVars, valVars, clientVars, detailsVars,
                   inboxProps, isOpen, preferencesDisplay, messageDetails, lastEvent>>

\* client.getMeta rejects: the catch block and the finally block of
\* fetchMeta, of the effect that made the call
MetaRejects(f) ==
    /\ f \in DOMAIN metaFetches
    /\ metaFetches[f].status = "pending"
    /\ IF ~metaFetches[f].isMounted
       THEN /\ metaFetches' = [metaFetches EXCEPT ![f].status = "ignored"]
            /\ UNCHANGED <<meta, derivedMeta, isMetaLoading, changedDeps>>
       ELSE /\ metaFetches' = [metaFetches EXCEPT ![f].status = "rejected"]
            /\ meta' = IF metaFetches[f].source = "mount" THEN JsNull ELSE meta
            /\ derivedMeta' = IF metaFetches[f].source = "mount" THEN JsNull
                              ELSE derivedMeta
            /\ isMetaLoading' = FALSE
            /\ changedDeps' = IF meta' # meta THEN changedDeps \cup {"meta"}
                              ELSE changedDeps
    /\ UNCHANGED <<env, feedVars, urlVars, htmlVars, navVars, valVars, clientVars, detailsVars,
                   inboxProps, isOpen, preferencesDisplay, messageDetails, lastEvent>>

\* Inbox is unmounted: the cleanup of every effect
UnmountInbox ==
    /\ InboxSettled
    /\ metaFetches' = CleanupAllFetches(metaFetches)
    /\ lastEvent' = InboxEvent("unmount", NoFeedMessage)
    /\ UNCHANGED <<env, feedVars, urlVars, htmlVars, navVars, valVars, clientVars, detailsVars,
                   inboxProps, isOpen, preferencesDisplay, messageDetails, meta,
                   derivedMeta, isMetaLoading, changedDeps>>

InboxNext ==
    \/ RunEffects
    \/ \E open \in BOOLEAN : SetIsOpen(open)
    \/ OpenPreferences
    \/ ClosePreferences
    \/ CloseMessageDetails
    \/ \E isDialogOpen \in DialogOpenChanges : HandlePreferencesDialogOpenChange(isDialogOpen)
    \/ \E msg \in FeedMessages : HandleMessageSelect(msg)
    \/ \E isDialogOpen \in DialogOpenChanges : HandleMessageDetailsDialogOpenChange(isDialogOpen)
    \/ \E v \in Variants : ChangeVariant(v)
    \/ \E f \in 1..MaxMetaFetches : MetaResolves(f)
    \/ \E f \in 1..MaxMetaFetches : MetaRejects(f)
    \/ UnmountInbox

SpecInbox == InboxInit /\ [][InboxNext]_vars

-----------------------------------------------------------------------------
(* Properties of normalizeSafeUrl and isSafeUrl *)

SafeSchemeNames == {<<"h","t","t","p">>, <<"h","t","t","p","s">>,
                    <<"m","a","i","l","t","o">>, <<"t","e","l">>}

\* the base normalizeSafeUrl resolves against in the execution context e
BaseOf(e) == IF e.hasWindow /\ e.hasLocation THEN e.href ELSE FALLBACK_BASE

\* the trimmed input is non-empty and is a fragment reference or resolves
\* to a URL with one of the four schemes
AcceptedUrl(raw, e) ==
    LET v == Trim(raw)
        u == NewURL(v, BaseOf(e))
    IN  /\ Len(v) > 0
        /\ \/ v[1] = "#"
           \/ ~u.failure /\ ToLower(u.scheme) \in SafeSchemeNames

\* C3: normalizeSafeUrl returns the trimmed input exactly when it is
\* non-empty and is a fragment reference or resolves to an http:, https:,
\* mailto: or tel: URL; otherwise it returns null; it never throws; and
\* isSafeUrl is true exactly when normalizeSafeUrl is non-null.
C3_NormalizeSafeUrl ==
    /\ urlRes # UrlUnset =>
          /\ ~urlRes.threw
          /\ IF AcceptedUrl(urlRaw, env)
             THEN ~urlRes.null /\ urlRes.value = Trim(urlRaw)
             ELSE urlRes.null /\ urlRes.value = <<>>
    /\ urlSafe # "unset" => (urlSafe = "true" <=> AcceptedUrl(urlRaw, env))
    /\ (urlRes # UrlUnset /\ urlSafe # "unset") => (urlSafe = "true" <=> ~urlRes.null)

\* an upper-case scheme with padding on both sides is accepted and comes
\* back trimmed, with the author's upper-case letters
C3_Witness ==
    /\ urlRes # UrlUnset /\ ~urlRes.null /\ urlSafe = "true"
    /\ urlRaw # Trim(urlRaw)
    /\ urlRes.value = Trim(urlRaw)
    /\ StartsWith(urlRes.value, <<"H","T","T","P","S",":">>)

RelativeRefs ==
    { <<"/","x">>, <<".","/","x">>, <<".",".","/","x">>,
      <<"p","a","t","h","/","t","o","/","p","a","g","e">> }

\* C9: a relative reference is accepted in every execution context, and
\* the result is the trimmed input whatever the document's location is.
C9_RelativeAccepted ==
    Trim(urlRaw) \in RelativeRefs =>
        /\ urlRes # UrlUnset => urlRes = UrlValue(Trim(urlRaw))
        /\ urlSafe # "unset" => urlSafe = "true"

-----------------------------------------------------------------------------
(* Properties of sanitizeHtml *)

DomAvailable(e) == e.hasDOMParser /\ e.hasDocument

Allowed(el) == ToLower(TagName(el)) \in ALLOWED_TAGS

RECURSIVE ElementsOf(_)
\* the elements of a forest, at every depth
ElementsOf(forest) ==
    UNION {IF forest[i].kind = "element"
           THEN {forest[i]} \cup ElementsOf(forest[i].children) ELSE {}
              : i \in 1..Len(forest)}

RECURSIVE PairsOf(_, _)
\* each element of the parsed forest that sanitizeElement visits, with the
\* node at the same place of the sanitized forest
PairsOf(before, after) ==
    UNION {IF i <= Len(after) /\ before[i].kind = "element"
           THEN {<<before[i], after[i]>>}
                \cup (IF after[i].kind = "element"
                      THEN PairsOf(before[i].children, after[i].children) ELSE {})
           ELSE {}
              : i \in 1..Len(before)}

\* C1: with a DOM parser, the tree sanitizeHtml serializes holds no element,
\* at any depth, whose lower-cased tag name is outside ALLOWED_TAGS.
C1_OnlyAllowedElements ==
    /\ (htmlRes.set /\ htmlRes.mode = "dom") =>
          \A el \in ElementsOf(htmlRes.tree) : Allowed(el)
    /\ (htmlRes2.set /\ htmlRes2.mode = "dom") =>
          \A el \in ElementsOf(htmlRes2.tree) : Allowed(el)

\* a disallowed element nested in an allowed one was replaced
C1_Witness ==
    /\ htmlRes.set /\ htmlRes.mode = "dom"
    /\ \E el \in ElementsOf(parsedBody) :
          /\ Allowed(el)
          /\ \E i \in 1..Len(el.children) :
                el.children[i].kind = "element" /\ ~Allowed(el.children[i])
    /\ ElementsOf(htmlRes.tree) # {}

AttrNames(attrs) == {attrs[i].name : i \in 1..Len(attrs)}

IsBlankAnchor(el) ==
    /\ el.ns = "html" /\ el.localName = <<"a">>
    /\ HasAttribute(el.attrs, <<"t","a","r","g","e","t">>)
    /\ ToLower(GetAttribute(el.attrs, <<"t","a","r","g","e","t">>)) = <<"_","b","l","a","n","k">>

\* what the claim says of an attribute that stays
StaysPerClaim(tag, attr, e) ==
    LET name == ToLower(attr.name)
    IN  /\ ~(Len(name) >= 2 /\ name[1] = "o" /\ name[2] = "n")
        /\ name # <<"s","t","y","l","e">>
        /\ \/ AllowedAttrsHas(<<"*">>, name)
           \/ (Len(name) >= 5 /\ SubSeq(name, 1, 5) = <<"d","a","t","a","-">>)
           \/ AllowedAttrsHas(tag, name)
        /\ (name = <<"h","r","e","f">> \/ name = <<"s","r","c">>) => isSafeUrl(attr.value, e)

\* the attributes of after are those of before that stay, in their order
\* and with their values, rel apart on an anchor with target=_blank
AttrsPerClaim(before, after, e) ==
    LET tag == ToLower(TagName(before))
        stay == SelectSeq(before.attrs, LAMBDA a : StaysPerClaim(tag, a, e))
        unrel(attrs) == SelectSeq(attrs, LAMBDA a : a.name # <<"r","e","l">>)
    IN  /\ after.kind = "element"
        /\ after.localName = before.localName
        /\ \A i \in 1..Len(before.attrs) :
              HasAttribute(after.attrs, before.attrs[i].name)
                  <=> \/ StaysPerClaim(tag, before.attrs[i], e)
                      \/ (before.attrs[i].name = <<"r","e","l">> /\ IsBlankAnchor(before))
        /\ IF IsBlankAnchor(before)
           THEN unrel(after.attrs) = unrel(stay)
           ELSE after.attrs = stay

\* C2: with a DOM parser, an attribute of a surviving element is in the
\* output exactly when its name does not start with "on", is not "style",
\* is allowed globally, by the data- prefix or for its tag, and, for href
\* and src, its value passes isSafeUrl; it keeps its value, and the element
\* is kept; only rel on a target=_blank anchor is added or rewritten.
C2_AttributesFiltered ==
    (htmlRes.set /\ htmlRes.mode = "dom") =>
        \A p \in PairsOf(parsedBody, htmlRes.tree) :
            Allowed(p[1]) => AttrsPerClaim(p[1], p[2], env)

\* an anchor lost its unsafe href and kept another attribute
C2_Witness ==
    /\ htmlRes.set /\ htmlRes.mode = "dom"
    /\ \E p \in PairsOf(parsedBody, htmlRes.tree) :
          /\ p[1].localName = <<"a">>
          /\ HasAttribute(p[1].attrs, <<"h","r","e","f">>)
          /\ GetAttribute(p[1].attrs, <<"h","r","e","f">>) = <<"j","a","v","a","s","c","r","i","p","t",":","x">>
          /\ p[2].kind = "element"
          /\ ~HasAttribute(p[2].attrs, <<"h","r","e","f">>)
          /\ HasAttribute(p[2].attrs, <<"d","a","t","a","-","x">>)
          /\ ~IsBlankAnchor(p[1])

\* on[a-z]+=
MatchesHandler(s) ==
    \E i \in 1..Len(s) : \E j \in (i + 3)..Len(s) :
        /\ s[i] = "o" /\ s[i + 1] = "n" /\ s[j] = "="
        /\ \A k \in (i + 2)..(j - 1) : IsLower(s[k])

TagPatterns == {<<"<","s","c","r","i","p","t">>, <<"<","i","f","r","a","m","e">>, <<"<","o","b","j","e","c","t">>, <<"<","e","m","b","e","d">>, <<"<","s","v","g">>, <<"<","m","a","t","h">>}

MatchesDangerous(s) ==
    \/ \E p \in TagPatterns : Contains(s, p)
    \/ MatchesHandler(s)
    \/ Contains(s, <<"s","t","y","l","e","=">>)
    \/ Contains(s, <<"j","a","v","a","s","c","r","i","p","t",":">>)

\* C4 as claimed: in both modes the returned string holds no substring
\* matching <script, <iframe, <object, <embed, <svg, <math, on[a-z]+=,
\* style= or javascript:.
C4_NoDangerousSubstring == htmlRes.set => ~MatchesDangerous(htmlRes.html)

DangerousTags == {<<"s","c","r","i","p","t">>, <<"i","f","r","a","m","e">>, <<"o","b","j","e","c","t">>, <<"e","m","b","e","d">>, <<"s","v","g">>, <<"m","a","t","h">>}

\* C4 as amended: with a DOM parser the serialized tree holds no script,
\* iframe, object, embed, svg or math element, no attribute whose name
\* starts with "on" or is "style", and no href or src value that fails
\* isSafeUrl; in the fallback mode the returned string holds no "<", so
\* none of the six tag patterns.  on[a-z]+=, style= and javascript: can
\* still occur as text, in comments and in the values of kept attributes.
C4_NoDangerousMarkup ==
    htmlRes.set =>
        /\ htmlRes.mode = "dom" =>
              \A el \in ElementsOf(htmlRes.tree) :
                  /\ ToLower(TagName(el)) \notin DangerousTags
                  /\ \A i \in 1..Len(el.attrs) :
                        LET name == ToLower(el.attrs[i].name)
                        IN  /\ ~StartsWith(name, <<"o","n">>)
                            /\ name # <<"s","t","y","l","e">>
                            /\ name \in {<<"h","r","e","f">>, <<"s","r","c">>} =>
                                  isSafeUrl(el.attrs[i].value, env)
        /\ htmlRes.mode = "escape" =>
              /\ ~Contains(htmlRes.html, <<"<">>)
              /\ \A p \in TagPatterns : ~Contains(htmlRes.html, p)

\* a script element and an onclick attribute were removed while
\* "javascript:" stays in the returned string as text
C4_Witness ==
    /\ htmlRes.set /\ htmlRes.mode = "dom"
    /\ \E el \in ElementsOf(parsedBody) : el.localName = <<"s","c","r","i","p","t">>
    /\ \E el \in ElementsOf(parsedBody) : HasAttribute(el.attrs, <<"o","n","c","l","i","c","k">>)
    /\ Contains(htmlRes.html, <<"j","a","v","a","s","c","r","i","p","t",":">>)

HtmlSpecialChars == {"&", "<", ">", "\"", "'"}

\* C5 as claimed: sanitizeHtml(sanitizeHtml(x)) equals sanitizeHtml(x) in
\* both modes.
C5_Idempotent == htmlRes2.set => htmlRes2.html = htmlRes.html

\* C5 as amended: in the fallback mode sanitizing the output again gives
\* the same string exactly when the input holds none of & < > " ' (else
\* the "&" of every entity is escaped again).  With a DOM parser the
\* sanitizing pass changes nothing in a tree it has sanitized, so the
\* second call returns the serialization of what the parser reads back
\* from the first result: the same string unless the parser restructures
\* that markup, as it does when a replaced element has left text directly
\* in a table.
C5_IdempotentOnSanitizedTree ==
    /\ (htmlRes.set /\ htmlRes.mode = "dom") =>
          sanitizeElement(BodyOf(htmlRes.tree), env).children = htmlRes.tree
    /\ htmlRes2.set =>
          /\ htmlRes.mode = "escape" =>
                (htmlRes2.html = htmlRes.html
                    <=> Range(htmlIn) \cap HtmlSpecialChars = {})
          /\ htmlRes.mode = "dom" =>
                /\ htmlRes2.html =
                      InnerHTML(BodyOf(ParseSerialized(htmlRes.tree)), env)
                /\ ParseSerialized(htmlRes.tree) = htmlRes.tree =>
                      htmlRes2.html = htmlRes.html
          /\ htmlRes.mode = "empty" => htmlRes2.html = <<>>

\* the pass ran twice with a DOM parser, the second time on markup in
\* which the first had left text directly in a table, and the two strings
\* differ
C5_Witness ==
    /\ htmlRes2.set /\ htmlRes.mode = "dom"
    /\ htmlRes.html = <<"<","t","a","b","l","e",">","H","i","<","/","t","a","b","l","e",">">>
    /\ htmlRes2.html = <<"H","i","<","t","a","b","l","e",">","<","/","t","a","b","l","e",">">>

RECURSIVE TextOf(_)
\* the characters of every Text node of a forest, in document order
TextOf(forest) ==
    IF forest = <<>> THEN <<>>
    ELSE (IF Head(forest).kind = "text" THEN Head(forest).data
          ELSE IF Head(forest).kind = "element" THEN TextOf(Head(forest).children)
          ELSE <<>>) \o TextOf(Tail(forest))

RECURSIVE ReplacedInPlace(_, _)
\* after is before with each disallowed element replaced by one text node
\* of its text content, and nothing else moved, added or dropped
ReplacedInPlace(before, after) ==
    /\ Len(after) = Len(before)
    /\ \A i \in 1..Len(before) :
          IF before[i].kind # "element" THEN after[i] = before[i]
          ELSE IF Allowed(before[i])
          THEN /\ after[i].kind = "element"
               /\ after[i].localName = before[i].localName
               /\ ReplacedInPlace(before[i].children, after[i].children)
          ELSE after[i] = [kind |-> "text", data |-> TextOf(before[i].children)]

\* C6: with a DOM parser each disallowed element is replaced by exactly one
\* text node holding its full text content, the siblings stay in place, and
\* the text content of the body is the same before and after.
C6_TextContentPreserved ==
    (htmlRes.set /\ htmlRes.mode = "dom") =>
        /\ ReplacedInPlace(parsedBody, htmlRes.tree)
        /\ TextOf(htmlRes.tree) = TextOf(parsedBody)

\* a disallowed element with text in it was replaced next to an allowed
\* sibling
C6_Witness ==
    /\ htmlRes.set /\ htmlRes.mode = "dom"
    /\ Len(parsedBody) = 2
    /\ parsedBody[1].kind = "element" /\ ~Allowed(parsedBody[1])
    /\ TextOf(parsedBody[1].children) # <<>>
    /\ parsedBody[2].kind = "element" /\ Allowed(parsedBody[2])
    /\ htmlRes.tree[1].kind = "text"

NoDuplicates(s) == \A i, j \in 1..Len(s) : i # j => s[i] # s[j]

\* C7: a surviving anchor with target "_blank" (any case) has a rel whose
\* tokens hold noopener, noreferrer and every token the author wrote, none
\* twice; any other anchor keeps the rel the author wrote.
C7_BlankAnchorsHardened ==
    (htmlRes.set /\ htmlRes.mode = "dom") =>
        \A p \in PairsOf(parsedBody, htmlRes.tree) :
            (p[1].ns = "html" /\ p[1].localName = <<"a">>) =>
                IF IsBlankAnchor(p[1])
                THEN /\ HasAttribute(p[2].attrs, <<"r","e","l">>)
                     /\ LET tokens == SplitWhitespace(GetAttribute(p[2].attrs, <<"r","e","l">>))
                            written == IF HasAttribute(p[1].attrs, <<"r","e","l">>)
                                       THEN SplitWhitespace(GetAttribute(p[1].attrs, <<"r","e","l">>))
                                       ELSE <<>>
                        IN  /\ {<<"n","o","o","p","e","n","e","r">>, <<"n","o","r","e","f","e","r","r","e","r">>} \subseteq Range(tokens)
                            /\ Range(written) \subseteq Range(tokens)
                            /\ NoDuplicates(tokens)
                ELSE /\ HasAttribute(p[2].attrs, <<"r","e","l">>) <=> HasAttribute(p[1].attrs, <<"r","e","l">>)
                     /\ HasAttribute(p[1].attrs, <<"r","e","l">>) =>
                           GetAttribute(p[2].attrs, <<"r","e","l">>) = GetAttribute(p[1].attrs, <<"r","e","l">>)

\* an anchor with target "_BLANK" and a repeated rel token was hardened
C7_Witness ==
    /\ htmlRes.set /\ htmlRes.mode = "dom"
    /\ \E p \in PairsOf(parsedBody, htmlRes.tree) :
          /\ IsBlankAnchor(p[1])
          /\ GetAttribute(p[1].attrs, <<"t","a","r","g","e","t">>) = <<"_","B","L","A","N","K">>
          /\ HasAttribute(p[1].attrs, <<"r","e","l">>)
          /\ ~NoDuplicates(SplitWhitespace(GetAttribute(p[1].attrs, <<"r","e","l">>)))
          /\ GetAttribute(p[2].attrs, <<"r","e","l">>) = <<"n","o","o","p","e","n","e","r"," ","e","x","t","e","r","n","a","l"," ","n","o","r","e","f","e","r","r","e","r">>

Entities == {<<"&","a","m","p",";">>, <<"&","l","t",";">>, <<"&","g","t",";">>, <<"&","q","u","o","t",";">>, <<"&","#","3","9",";">>}

RECURSIVE EscapedPerClaim(_)
\* the input with each of the five characters replaced by its entity
EscapedPerClaim(s) ==
    IF s = <<>> THEN <<>>
    ELSE (CASE Head(s) = "&" -> <<"&","a","m","p",";">>
            [] Head(s) = "<" -> <<"&","l","t",";">>
            [] Head(s) = ">" -> <<"&","g","t",";">>
            [] Head(s) = "\"" -> <<"&","q","u","o","t",";">>
            [] Head(s) = "'" -> <<"&","#","3","9",";">>
            [] OTHER -> <<Head(s)>>) \o EscapedPerClaim(Tail(s))

\* C8: without a DOM parser or without a document sanitizeHtml does not
\* throw and returns the input with each of & < > " ' replaced by its
\* entity, so the result holds no raw < > " ' and every & starts an
\* entity; the empty input gives the empty string in every mode.
C8_FallbackEscapes ==
    htmlRes.set =>
        /\ ~htmlRes.threw
        /\ htmlIn = <<>> => htmlRes.html = <<>>
        /\ (~DomAvailable(env) /\ htmlIn # <<>>) =>
              /\ htmlRes.mode = "escape"
              /\ htmlRes.html = EscapedPerClaim(htmlIn)
              /\ Range(htmlRes.html) \cap {"<", ">", "\"", "'"} = {}
              /\ \A i \in 1..Len(htmlRes.html) :
                    htmlRes.html[i] = "&" =>
                        \E en \in Entities :
                            SubSeq(htmlRes.html, i, i + Len(en) - 1) = en

\* an input with all five characters was escaped where a DOMParser global
\* exists but no document
C8_Witness ==
    /\ htmlRes.set /\ htmlRes.mode = "escape"
    /\ env.hasDOMParser /\ ~env.hasDocument
    /\ HtmlSpecialChars \subseteq Range(htmlIn)

-----------------------------------------------------------------------------
(* Properties of the link action buttons *)

\* C10: whatever is clicked in Feed and MessageDetails, and however
\* safeNavigate is called, the browser is given an href only when there is
\* a window and normalizeSafeUrl accepts the href asked for, and it is given
\* what normalizeSafeUrl returned; without a window, or for an href that
\* normalizeSafeUrl rejects, nothing is navigated to and nothing is opened.
C10_NavigationGated ==
    LET effect == lastNav.effect
    IN  /\ effect.via # "none" =>
              /\ env.hasWindow
              /\ lastNav.asked.t = "string"
              /\ normalizeSafeUrl(lastNav.asked.s, env) = UrlValue(effect.href)
              /\ ~normalizeSafeUrl(effect.href, env).null
        /\ (lastNav.from # "none" /\ lastNav.asked.t = "string"
              /\ normalizeSafeUrl(lastNav.asked.s, env).null) => effect.via = "none"
        /\ ~env.hasWindow => effect.via = "none"

\* a click on a Feed button whose href is javascript:x did nothing, in a
\* window where MessageDetails has loaded
C10_Witness ==
    /\ env.hasWindow
    /\ lastNav.from = "feed"
    /\ lastNav.asked = JsString(<<"j","a","v","a","s","c","r","i","p","t",":","x">>)
    /\ lastNav.effect = NoEffect
    /\ detailsData # JsNull

\* what the claim says safeNavigate does with an accepted href
EffectPerClaim(asked, target, effect) ==
    IF target.t \in {"undefined", "null"} \/ target = JsString(<<"_","s","e","l","f">>)
    THEN effect = LocationAssign(Trim(asked))
    ELSE \E opened \in BOOLEAN :
            effect = [NoEffect EXCEPT !.via = "open", !.href = Trim(asked),
                                      !.target = target,
                                      !.features = <<"n","o","o","p","e","n","e","r",",","n","o","r","e","f","e","r","r","e","r">>,
                                      !.handle = opened,
                                      !.openerCleared = opened]

AcceptedCall ==
    /\ lastNav.from # "none"
    /\ env.hasWindow
    /\ lastNav.asked.t = "string"
    /\ ~normalizeSafeUrl(lastNav.asked.s, env).null

\* C11 as claimed: when safeNavigate accepts an href it performs exactly one
\* effect on the trimmed href: location.assign and no window.open when
\* target is absent or "_self", otherwise one window.open with that target
\* and the features "noopener,noreferrer", the opener of a returned window
\* set to null, and no location.assign.
C11_ExactlyOneEffect ==
    AcceptedCall => EffectPerClaim(lastNav.asked.s, lastNav.target, lastNav.effect)

\* C11 where the window has a location: the same statement holds
C11_OneEffectWhereLocation ==
    (AcceptedCall /\ env.hasLocation) =>
        EffectPerClaim(lastNav.asked.s, lastNav.target, lastNav.effect)

\* an accepted href with no target, in a window without a location, ended
\* in a TypeError and no effect
C11_ThrowsWithoutLocation ==
    /\ AcceptedCall
    /\ ~env.hasLocation
    /\ lastNav.target = JsUndefined
    /\ lastNav.effect = ThrewTypeError

-----------------------------------------------------------------------------
(* Properties of the response validation *)

\* the checks of the response in the order the specification lists them
CheckNames ==
    <<"messageId", "title", "snippet", "createdAt", "bodyHtml", "category",
      "primaryAction", "secondaryAction">>

StringOrNull(v) == v.t \in {"string", "null"}
NonEmptyString(v) == v.t = "string" /\ Len(v.s) > 0

CheckPasses(name, obj, e) ==
    CASE name = "messageId" -> NonEmptyString(obj.messageId)
      [] name = "title" -> StringOrNull(obj.title)
      [] name = "snippet" -> StringOrNull(obj.snippet)
      [] name = "createdAt" -> NonEmptyString(obj.createdAt)
      [] name = "bodyHtml" -> obj.bodyHtml.t = "string"
      [] name = "category" -> StringOrNull(obj.category)
      [] name = "primaryAction" ->
            obj.primaryAction.t = "undefined" \/ validateAction(obj.primaryAction, e)
      [] name = "secondaryAction" ->
            obj.secondaryAction.t = "undefined" \/ validateAction(obj.secondaryAction, e)

ErrorOf(name) ==
    CASE name = "messageId" -> "messageId must be a non-empty string"
      [] name = "title" -> "title must be a string or null"
      [] name = "snippet" -> "snippet must be a string or null"
      [] name = "createdAt" -> "createdAt must be a non-empty string"
      [] name = "bodyHtml" -> "bodyHtml must be a string"
      [] name = "category" -> "category must be a string or null"
      [] name = "primaryAction" -> "primaryAction has invalid structure or unsafe URL"
      [] name = "secondaryAction" -> "secondaryAction has invalid structure or unsafe URL"

Violated(obj, e) ==
    {i \in DOMAIN CheckNames : ~CheckPasses(CheckNames[i], obj, e)}

Called == valRes # NoResult

\* C12: validateMessageDetailsResponse answers a value that is not an object
\* with the error of the object check; it answers an object that violates
\* several checks with the error of the earliest one in the order messageId,
\* title, snippet, createdAt, bodyHtml, category, primaryAction,
\* secondaryAction, no two checks sharing an error; it answers an object that
\* violates none with valid and, as data, the very object it was given.
C12_FirstFailureInOrder ==
    /\ \A i, j \in DOMAIN CheckNames :
          i # j => /\ ErrorOf(CheckNames[i]) # ErrorOf(CheckNames[j])
                   /\ ErrorOf(CheckNames[i]) # "Response must be an object"
    /\ Called =>
          IF valInput.t # "ref"
          THEN valRes = [valid |-> FALSE, data |-> JsUndefined,
                         error |-> "Response must be an object"]
          ELSE IF Violated(objects[valInput.ref], env) = {}
          THEN /\ valRes.valid
               /\ valRes.data = valInput
               /\ valRes.error = ""
          ELSE /\ ~valRes.valid
               /\ valRes.data = JsUndefined
               /\ \E i \in Violated(objects[valInput.ref], env) :
                     /\ \A j \in Violated(objects[valInput.ref], env) : i <= j
                     /\ valRes.error = ErrorOf(CheckNames[i])

\* an object whose bodyHtml, category and primaryAction are all wrong was
\* answered with the error of bodyHtml
C12_Witness ==
    /\ Called
    /\ valInput.t = "ref"
    /\ Violated(objects[valInput.ref], env) = {5, 6, 7}
    /\ valRes.error = "bodyHtml must be a string"

\* the other checks of a response all pass
OthersPass(obj, e) ==
    \A name \in {"messageId", "createdAt", "bodyHtml", "primaryAction",
                 "secondaryAction"} : CheckPasses(name, obj, e)

Absent(v) == v.t = "undefined"

\* C13 (as stated): a response in which title, snippet or category is
\* absent, each of the three being a string, null or absent and every other
\* check passing, is reported valid.
C13_AbsentFieldValid ==
    (/\ Called
     /\ valInput.t = "ref"
     /\ OthersPass(objects[valInput.ref], env)
     /\ \A v \in {objects[valInput.ref].title, objects[valInput.ref].snippet,
                  objects[valInput.ref].category} : StringOrNull(v) \/ Absent(v))
        => valRes.valid

\* C13 (amended): with every other check passing, the response is reported
\* valid exactly when each of title, snippet and category is a string or
\* null; an absent one of them fails like any other value, with the error
\* of the first of the three that is neither a string nor null.
C13_AbsentFieldRejected ==
    (Called /\ valInput.t = "ref" /\ OthersPass(objects[valInput.ref], env)) =>
        LET obj == objects[valInput.ref]
        IN  /\ valRes.valid <=>
                  \A v \in {obj.title, obj.snippet, obj.category} : v.t \in {"string", "null"}
            /\ Absent(obj.title) => valRes.error = "title must be a string or null"
            /\ (obj.title.t \in {"string", "null"} /\ Absent(obj.snippet)) =>
                  valRes.error = "snippet must be a string or null"
            /\ (obj.title.t \in {"string", "null"} /\ obj.snippet.t = "string"
                  /\ Absent(obj.category)) =>
                  valRes.error = "category must be a string or null"

\* a response that lacks only its title was rejected
C13_Witness ==
    /\ Called
    /\ valInput.t = "ref"
    /\ OthersPass(objects[valInput.ref], env)
    /\ Absent(objects[valInput.ref].title)
    /\ objects[valInput.ref].snippet.t = "string"
    /\ objects[valInput.ref].category.t = "null"
    /\ valRes = [valid |-> FALSE, data |-> JsUndefined,
                 error |-> "title must be a string or null"]

AbsentOrString(v) == v.t \in {"undefined", "string"}
ValidType(v) == v.t = "string" /\ v.s \in {<<"p","r","i","m","a","r","y">>, <<"s","e","c","o","n","d","a","r","y">>}

\* the link shape of the specification
LinkShape(v, e) ==
    /\ v.kind = JsString(<<"l","i","n","k">>)
    /\ NonEmptyString(v.label)
    /\ ValidType(v.type)
    /\ NonEmptyString(v.href) /\ isSafeUrl(v.href.s, e)
    /\ Absent(v.target) \/ (v.target.t = "string" /\ Len(v.target.s) > 0
                             /\ Head(v.target.s) = "_")
    /\ AbsentOrString(v.rel)
    /\ AbsentOrString(v.id)

\* the callback shape of the specification
CallbackShape(v) ==
    /\ v.kind = JsString(<<"c","a","l","l","b","a","c","k">>)
    /\ NonEmptyString(v.label)
    /\ ValidType(v.type)
    /\ NonEmptyString(v.actionId)
    /\ AbsentOrString(v.id)

ActionCalled == actRes \in {"true", "false"}

\* C14: the action validation accepts a value exactly when it is undefined,
\* or an object of the link shape (kind link, label a non-empty string, type
\* primary or secondary, href a non-empty string that isSafeUrl accepts,
\* target absent or a string beginning with _, rel and id absent or
\* strings), or an object of the callback shape (kind callback, label, type,
\* actionId a non-empty string, id absent or a string); null, every other
\* primitive and every other object fail.
C14_ActionAcceptedIffShape ==
    ActionCalled =>
        (actRes = "true" <=>
            \/ Absent(actInput)
            \/ actInput.t = "object" /\ LinkShape(actInput, env)
            \/ actInput.t = "object" /\ CallbackShape(actInput))

\* a link with a safe href that is right in everything but its target, top,
\* was rejected
C14_Witness ==
    /\ actRes = "false"
    /\ actInput.t = "object"
    /\ actInput.target = JsString(<<"t","o","p">>)
    /\ LinkShape([actInput EXCEPT !.target = JsUndefined], env)

Sanitized == sanRes # JsUndefined

ActionSlots == {"primaryAction", "secondaryAction"}
ContentFields ==
    {"messageId", "title", "snippet", "createdAt", "bodyHtml", "category"}

\* C15 (as stated): in the object sanitizeMessageDetailsResponse returns,
\* each of primaryAction and secondaryAction that is present passes the
\* action validation; a present value that fails it, null included, is gone.
C15_PresentActionsValid ==
    Sanitized =>
        \A slot \in ActionSlots :
            \/ Absent(objects[sanRes.ref][slot])
            \/ /\ objects[sanRes.ref][slot].t = "object"
               /\ validateAction(objects[sanRes.ref][slot], env)

\* what does hold: an action of the returned object that is an object
\* passes the action validation
C15_ObjectActionsValid ==
    Sanitized =>
        \A slot \in ActionSlots :
            objects[sanRes.ref][slot].t = "object" =>
                validateAction(objects[sanRes.ref][slot], env)

\* the returned object still has the primaryAction null of the response
C15_NullActionKept ==
    /\ Sanitized
    /\ valInput.t = "ref"
    /\ objects[valInput.ref].primaryAction = JsNull
    /\ objects[sanRes.ref].primaryAction = JsNull
    /\ ~validateAction(JsNull, env)

\* C16: a call of sanitizeMessageDetailsResponse leaves every object that
\* existed as it was, the response included, and returns an object that did
\* not exist; that object has the content fields of the response, and in
\* each action slot either what the response has there or, only where that
\* fails the action validation, nothing; an action that passes is kept
\* whatever happens to the other slot.
C16_InputNeverMutated ==
    [][CallSanitizeMessageDetailsResponse =>
          /\ \A r \in DOMAIN objects : objects'[r] = objects[r]
          /\ sanRes'.t = "ref"
          /\ sanRes'.ref \in DOMAIN objects' \ DOMAIN objects
          /\ valInput.t = "ref" =>
                /\ \A f \in ContentFields :
                      objects'[sanRes'.ref][f] = objects[valInput.ref][f]
                /\ \A slot \in ActionSlots :
                      IF validateAction(objects[valInput.ref][slot], env)
                      THEN objects'[sanRes'.ref][slot] = objects[valInput.ref][slot]
                      ELSE objects'[sanRes'.ref][slot]
                              \in {objects[valInput.ref][slot], JsUndefined}
    ]_vars

\* the unsafe primaryAction was stripped from the returned object and is
\* still on the response, whose secondaryAction the returned object has
C16_Witness ==
    /\ Sanitized
    /\ valInput.t = "ref"
    /\ sanRes # valInput
    /\ objects[valInput.ref].primaryAction = UnsafeLink
    /\ Absent(objects[sanRes.ref].primaryAction)
    /\ objects[sanRes.ref].secondaryAction = GoodCallback
    /\ objects[sanRes.ref].bodyHtml = objects[valInput.ref].bodyHtml

-----------------------------------------------------------------------------
(* Properties of the member client *)

Settled(req) == req.pc \in {"resolved", "rejected"}

\* the first fetch of the call returned HTTP 401
FirstWas401(req) == req.firstError = [isError |-> TRUE, status |-> 401, src |-> "fetch1"]

\* the first try of the call failed with something that is no 401
FirstFailedOtherwise(req) == req.firstError.src # "none" /\ req.firstError.status # 401

\* C17 (as stated): a call of request whose first fetch returns 401 clears
\* the token once, asks the token manager again and fetches exactly once
\* more, with the token it was given; no call fetches more than twice or
\* clears more than once, and a call whose first try fails otherwise does
\* not fetch again.
C17_RetriesExactlyOnce ==
    \A r \in DOMAIN requests :
        /\ Len(requests[r].tokens) <= 2
        /\ requests[r].clears <= 1
        /\ FirstWas401(requests[r]) =>
              /\ requests[r].clears = 1
              /\ requests[r].gets = 2
              /\ Settled(requests[r]) =>
                    /\ Len(requests[r].tokens) = 2
                    /\ requests[r].awaited = [ok |-> TRUE,
                                              token |-> requests[r].tokens[2],
                                              error |-> NoError]
        /\ FirstFailedOtherwise(requests[r]) =>
              /\ requests[r].pc = "rejected"
              /\ Len(requests[r].tokens) <= 1
              /\ requests[r].clears = 0
              /\ requests[r].gets = 1

\* C17 (amended): as above, but the second fetch is made only when the
\* token manager gives a token; when its promise is rejected the call has
\* fetched once and throws what the token manager threw.
C17_RetriesOnceGivenToken ==
    \A r \in DOMAIN requests :
        /\ Len(requests[r].tokens) <= 2
        /\ requests[r].clears <= 1
        /\ FirstWas401(requests[r]) =>
              /\ requests[r].clears = 1
              /\ requests[r].gets = 2
              /\ Settled(requests[r]) =>
                    IF requests[r].awaited.ok
                    THEN /\ Len(requests[r].tokens) = 2
                         /\ requests[r].tokens[2] = requests[r].awaited.token
                    ELSE /\ Len(requests[r].tokens) = 1
                         /\ requests[r].pc = "rejected"
                         /\ requests[r].thrown = requests[r].awaited.error
        /\ FirstFailedOtherwise(requests[r]) =>
              /\ requests[r].pc = "rejected"
              /\ Len(requests[r].tokens) <= 1
              /\ requests[r].clears = 0
              /\ requests[r].gets = 1

\* a call fetched with one token, got 401, and fetched again with the next
\* token of getToken; the second fetch returned 401 too and the call ended
C17_Witness ==
    \E r \in DOMAIN requests :
        /\ FirstWas401(requests[r])
        /\ requests[r].pc = "rejected"
        /\ requests[r].thrown = [isError |-> TRUE, status |-> 401, src |-> "fetch2"]
        /\ Len(requests[r].tokens) = 2
        /\ requests[r].tokens[1] # requests[r].tokens[2]

\* a call got 401, and getToken failed when asked again: no second fetch
C17_NoRetryWithoutToken ==
    \E r \in DOMAIN requests :
        /\ FirstWas401(requests[r])
        /\ requests[r].pc = "rejected"
        /\ Len(requests[r].tokens) = 1

FirstRound ==
    {r \in DOMAIN requests :
        /\ FirstWas401(requests[r])
        /\ requests[r].tokens # <<>> /\ requests[r].tokens[1] = 1}

\* C25: when several calls made with the same cached token of a
\* DynamicTokenManager each get HTTP 401, getToken is invoked at most
\* once more in total: the token one call fetched after its clear() is
\* not dropped by the clear() of another.
C25_RefreshedOncePerRound ==
    (tokenManager.kind = "dynamic" /\ Cardinality(FirstRound) >= 2) =>
        tokenManager.issued <= 2

\* two calls shared token 1 and both got 401: the first call's retry used
\* token 2, the clear() of the second call dropped it and its retry used
\* token 3 of a third getToken
C25_SecondClearDropsFreshToken ==
    /\ tokenManager.kind = "dynamic"
    /\ FirstRound = {1, 2}
    /\ requests[1].tokens = <<1, 2>> /\ requests[1].pc = "resolved"
    /\ requests[2].tokens = <<1, 3>> /\ requests[2].pc = "resolved"
    /\ tokenManager.issued = 3

\* the call failed with the rejection of the promise of getToken
FailedOnToken(req) ==
    req.pc = "rejected" /\ req.thrown.src \in {"token1", "token2"}

\* C26: a DynamicTokenManager does not keep the promise of a getToken
\* that failed: once a call has thrown the rejection, the manager holds
\* no promise rejected with it, so that the next call invokes getToken.
C26_RejectionNotRetained ==
    \A r \in DOMAIN requests :
        (tokenManager.kind = "dynamic" /\ FailedOnToken(requests[r])) =>
            tokenManager.tokenPromise # Rejected(requests[r].thrown)

\* getToken was invoked once and failed; the first call threw the
\* rejection, and the second call, made after that, threw the same
\* cached rejection without another getToken
C26_NextCallFailsOnCachedRejection ==
    /\ tokenManager.kind = "dynamic"
    /\ tokenManager.issued = 1
    /\ FailedOnToken(requests[1]) /\ FailedOnToken(requests[2])
    /\ requests[2].thrown = requests[1].thrown
    /\ requests[2].gets = 1

-----------------------------------------------------------------------------
(* Properties of MessageDetails *)

\* the responses of the fetches that resolved while their effect was live
LoadedResponses ==
    {inbox[fetches[f].messageId] :
        f \in {g \in DOMAIN fetches : fetches[g].status = "resolved"}}

ValidActionObject(v, e) ==
    v.t = "object" /\ (LinkShape(v, e) \/ CallbackShape(v))

\* C19: whatever fetches and changes of messageId have happened, the card
\* MessageDetails shows is that of a response it loaded, with the
\* response's title and body, and it has a button for exactly those of
\* primaryAction and secondaryAction of the response that are objects of the
\* link or callback shape with a safe href; every other action of the
\* response has no button. The error state comes only from a fetch that
\* was rejected: a fetch that resolved for the live effect shows the card.
C19_OnlyValidActionsRendered ==
    /\ ShouldShowCard =>
          \E loaded \in LoadedResponses :
             /\ \A f \in ContentFields : detailsData[f] = loaded[f]
             /\ \A slot \in ActionSlots :
                   /\ slot \in RenderedActions <=> ValidActionObject(loaded[slot], env)
                   /\ slot \in RenderedActions => detailsData[slot] = loaded[slot]
    /\ errorMessage => \E f \in DOMAIN fetches : fetches[f].status = "rejected"
    /\ \A f \in DOMAIN fetches :
          (fetches[f].status = "resolved" /\ fetches[f].isMounted) =>
              /\ ~errorMessage /\ ~isLoading /\ detailsData # JsNull
              /\ Truthy(props.messageId) => ShouldShowCard

\* after a change of messageId the card of a message whose primaryAction
\* is unsafe is shown with the button of its secondaryAction only
C19_Witness ==
    /\ ShouldShowCard
    /\ Len(fetches) = 2
    /\ inbox[props.messageId].primaryAction = UnsafeLink
    /\ inbox[props.messageId].secondaryAction = GoodCallback
    /\ RenderedActions = {"secondaryAction"}
    /\ detailsData.title = inbox[props.messageId].title
    /\ ~errorMessage

\* what the HTML sanitizer of the library returns for a body
LibrarySanitized(html, e) ==
    IF html = <<>> THEN <<>>
    ELSE IF ~e.hasDOMParser \/ ~e.hasDocument THEN escapeHtml(html)
    ELSE SerializeChildren(sanitizeElement(BodyOf(ParseBody(html)), e),
                           e.attrEscapesAngle)

\* the record MessageDetails stores has the bodyHtml of a response it loaded
StoredBodyUntouched ==
    detailsData # JsNull =>
        \E loaded \in LoadedResponses : detailsData.bodyHtml = loaded.bodyHtml

\* C20 (as stated): whatever props MessageDetails has, the markup it injects
\* in the body is what the HTML sanitizer returns for the stored bodyHtml,
\* and the stored bodyHtml is that of the response.
C20_BodyAlwaysSanitized ==
    /\ StoredBodyUntouched
    /\ ShouldShowCard =>
          sanitizedBody(detailsData, props.sanitizeHtml, env)
              = LibrarySanitized(BodyHtmlOf(detailsData), env)

\* C20 (amended): the markup MessageDetails injects in the body is what the
\* HTML sanitizer returns for the stored bodyHtml when the host passes no
\* sanitizeHtml, and what the function of the host returns for it when the
\* host passes one; the stored bodyHtml is that of the response.
C20_BodySanitizedByDefault ==
    /\ StoredBodyUntouched
    /\ ShouldShowCard =>
          sanitizedBody(detailsData, props.sanitizeHtml, env)
              = IF props.sanitizeHtml = "undefined"
                THEN LibrarySanitized(BodyHtmlOf(detailsData), env)
                ELSE ApplyHostSanitizer(props.sanitizeHtml, BodyHtmlOf(detailsData))

\* without a sanitizeHtml prop, a body with a script element is stored as
\* it came and injected with the script element replaced by its text
C20_Witness ==
    /\ ShouldShowCard
    /\ props.sanitizeHtml = "undefined"
    /\ env.hasDOMParser
    /\ detailsData.bodyHtml = JsString(<<"<","s","c","r","i","p","t",">","x","<","/","s","c","r","i","p","t",">","H","i">>)
    /\ sanitizedBody(detailsData, props.sanitizeHtml, env) = <<"x","H","i">>

\* with sanitizeHtml = (html) => html the script element is injected
C20_HostSanitizerInjectsRaw ==
    /\ ShouldShowCard
    /\ props.sanitizeHtml = "identity"
    /\ sanitizedBody(detailsData, props.sanitizeHtml, env) = <<"<","s","c","r","i","p","t",">","x","<","/","s","c","r","i","p","t",">","H","i">>

\* the answer of the schema validation for a response
SchemaValid(loaded, e) ==
    validateMessageDetailsResponse(JsRef(1), <<loaded>>, e).valid

\* C21 (as stated): the record MessageDetails stores comes from a response
\* that passes validateMessageDetailsResponse; a response that fails it is
\* never the stored record.
C21_StoredRecordValidated ==
    detailsData # JsNull =>
        \E loaded \in LoadedResponses :
            /\ \A f \in ContentFields : detailsData[f] = loaded[f]
            /\ SchemaValid(loaded, env)

\* the card of a response whose messageId is empty is shown
C21_InvalidRecordShown ==
    /\ ShouldShowCard
    /\ detailsData.messageId = JsString(<<>>)
    /\ ~SchemaValid(inbox[props.messageId], env)
    /\ RenderedActions = {"primaryAction"}

\* the runs of fetchDetails whose effect has not been cleaned up
LiveFetches == {f \in DOMAIN fetches : fetches[f].isMounted}

\* C22: once the effect of the latest messageId has run, only the fetch that
\* effect started is live, and the state is that fetch's alone: data is set
\* only when it resolved, and is then the response for the latest messageId;
\* the error state is set only when it rejected; while it is pending the
\* component is loading without data or error. Whatever an earlier fetch does
\* afterwards is ignored.
C22_SupersededFetchIgnored ==
    (mounted /\ ~effectPending) =>
        /\ LiveFetches \subseteq {Len(fetches)}
        /\ \A f \in LiveFetches : fetches[f].messageId = props.messageId
        /\ detailsData # JsNull =>
              /\ LiveFetches # {}
              /\ fetches[Len(fetches)].status = "resolved"
              /\ \A field \in ContentFields :
                    detailsData[field] = inbox[props.messageId][field]
        /\ errorMessage =>
              /\ LiveFetches # {}
              /\ fetches[Len(fetches)].status = "rejected"
        /\ \A f \in LiveFetches :
              fetches[f].status = "pending" =>
                  isLoading /\ ~errorMessage /\ detailsData = JsNull
        /\ \A f \in LiveFetches :
              fetches[f].status = "resolved" => ShouldShowCard

\* the fetch of the first message settled after messageId had become that of
\* the second, whose card is shown
C22_Witness ==
    /\ Len(fetches) = 2
    /\ fetches[1].messageId = FirstId
    /\ fetches[1].status = "ignored"
    /\ props.messageId = SecondId
    /\ ShouldShowCard
    /\ detailsData.messageId = SecondId

-----------------------------------------------------------------------------
(* Properties of SpecFeed *)

Ids(list) == {list[i].id : i \in DOMAIN list}
NoDuplicateIds(list) == \A i, j \in DOMAIN list : list[i].id = list[j].id => i = j
LatestFirst(list) ==
    \A i, j \in DOMAIN list : i < j => list[i].createdAt >= list[j].createdAt
\* the message of a list with an id: of list `later` when it has one
LaterCopy(id, earlier, later) ==
    LET from == IF id \in Ids(later) THEN later ELSE earlier
        at == CHOOSE i \in DOMAIN from :
                 from[i].id = id /\ \A j \in DOMAIN from : from[j].id = id => j <= i
    IN from[at]

\* what a response of listInbox with the messages of page leaves in the
\* entry of its key, which held the messages of before
Merged(before, page, after) ==
    /\ NoDuplicateIds(after)
    /\ LatestFirst(after)
    /\ Ids(after) = Ids(before) \cup Ids(page)
    /\ \A i \in DOMAIN after : after[i] = LaterCopy(after[i].id, before, page)

\* a step of a mounted Feed settles the call
Settles(call) == feedMounted /\ listCalls' = listCalls (-) SetToBag({call})

\* the messages a response is merged with: those of the entry for a
\* load-more, none for the fetch effect
MergedWith(call) ==
    IF call.kind = "more" THEN EntryOf(stateByFilter, call.key).messages ELSE <<>>

\* C27: after every step no entry of the cache lists two messages with
\* the same id; every call of listInbox carries the key of the filters it
\* asks for, and a step that settles it changes the entry of that key
\* alone; when the step applies a response, the entry then lists, latest
\* first and once each, the messages of the response and, for a
\* load-more, the messages the entry held whose id the response does not
\* repeat.
C27_EntriesSortedAndDeduped ==
    [][/\ \A k \in DOMAIN stateByFilter' : NoDuplicateIds(stateByFilter'[k].messages)
       /\ listCalls' # listCalls =>
             /\ \A call \in BagToSet(listCalls') : call.key = FilterKey(call.filters)
             /\ \A call \in BagToSet(listCalls) :
                   Settles(call) =>
                      /\ \A k \in DOMAIN stateByFilter' :
                            k # call.key =>
                               /\ k \in DOMAIN stateByFilter
                               /\ stateByFilter'[k] = stateByFilter[k]
                      /\ \A page \in PagesFor(call.filters) :
                            stateByFilter'[call.key].messages =
                                  sortAndDedupeMessages(MergedWith(call) \o page) =>
                               Merged(MergedWith(call), page,
                                      stateByFilter'[call.key].messages)]_vars

\* a load-more for the key of the tab "all" was answered while another
\* one for the same key is pending: the entry lists the later message
\* first and the read copy of the other message
C27_Witness ==
    /\ feedMounted
    /\ BagIn(ListCall("more", FilterKey(<<Read, Unread>>), <<Read, Unread>>), listCalls)
    /\ FilterKey(<<Read, Unread>>) \in DOMAIN stateByFilter
    /\ ~stateByFilter[FilterKey(<<Read, Unread>>)].isLoadingMore
    /\ stateByFilter[FilterKey(<<Read, Unread>>)].messages =
          <<FeedMessageOf("b", 2, FALSE, FALSE), FeedMessageOf("a", 1, TRUE, FALSE)>>

\* the messages of another key than the one of the last action that have
\* the id of the action
OthersShowing(id, key) ==
    {stateByFilter[k].messages[i] :
        <<k, i>> \in {pair \in (DOMAIN stateByFilter \ {key}) \X (1..2) :
                         /\ pair[2] \in DOMAIN stateByFilter[pair[1]].messages
                         /\ stateByFilter[pair[1]].messages[pair[2]].id = id}}

\* C28: after markRead, markUnread, archive or unarchive of a message
\* under one key, no entry of another key lists the message in the state
\* it had before: unread after markRead, read after markUnread, not
\* archived after archive, archived after unarchive.
C28_OtherEntriesFollow ==
    \A m \in OthersShowing(feedEvent.id, feedEvent.key) :
        /\ feedEvent.kind = "markRead" => m.readAt
        /\ feedEvent.kind = "markUnread" => ~m.readAt
        /\ feedEvent.kind = "archive" => m.archivedAt
        /\ feedEvent.kind = "unarchive" => ~m.archivedAt

\* the message was marked read under the key of the tab "all" and the
\* entry of the tab "unread" still lists it as unread
C28_UnreadTabStale ==
    /\ feedEvent = FeedEvent("markRead", FilterKey(<<Read, Unread>>), "a")
    /\ FilterKey(<<Unread>>) \in DOMAIN stateByFilter
    /\ \E i \in DOMAIN stateByFilter[FilterKey(<<Unread>>)].messages :
          stateByFilter[FilterKey(<<Unread>>)].messages[i] =
             FeedMessageOf("a", 1, FALSE, FALSE)
    /\ \E i \in DOMAIN stateByFilter[FilterKey(<<Read, Unread>>)].messages :
          stateByFilter[FilterKey(<<Read, Unread>>)].messages[i] =
             FeedMessageOf("a", 1, TRUE, FALSE)

-----------------------------------------------------------------------------
(* Properties of SpecInbox *)

\* C23: the unread prop of the Bell that Inbox renders is the derived
\* unread total, 0 while meta is not loaded, whatever bellProps holds,
\* and every other key of bellProps reaches the Bell as given.
C23_BellShowsOwnUnread ==
    /\ BellElementProps.unread = DerivedUnread
    /\ \A k \in DOMAIN inboxProps.bellProps \ {"unread"} :
          BellElementProps[k] = inboxProps.bellProps[k]

\* the unread of bellProps replaces the derived total of a loaded meta,
\* next to the class name of bellProps
C23_BellPropsUnreadWins ==
    /\ derivedMeta # JsNull /\ DerivedUnread = 1
    /\ BellElementProps.unread = 99
    /\ BellElementProps.className = "custom-bell"

\* C24: after a click on the settings button the preferences are shown in
\* the form of the variant: in the popover variant as the dialog, with
\* the popover closed, before and after the effects of that close; in
\* the modal and drawer variants inline with the container open.  Once
\* the effects of a render have run, preferencesDisplay is not "dialog"
\* in a non-popover variant and not "inline" in the popover variant, and
\* the two forms are never rendered together.
C24_PreferencesFormMatchesVariant ==
    /\ lastEvent.kind = "openPreferences" =>
          IF inboxProps.variant = "popover"
          THEN ShouldRenderPreferencesDialog /\ ~isOpen /\ preferencesDisplay = "dialog"
          ELSE ShouldRenderInlinePreferences /\ isOpen /\ preferencesDisplay = "inline"
    /\ InboxSettled =>
          /\ ~(inboxProps.variant # "popover" /\ preferencesDisplay = "dialog")
          /\ ~(inboxProps.variant = "popover" /\ preferencesDisplay = "inline")
    /\ ~(ShouldRenderPreferencesDialog /\ ShouldRenderInlinePreferences)

\* the settings button was clicked in the popover variant, the effects of
\* the close have run, and the dialog is shown
C24_Witness ==
    /\ lastEvent.kind = "openPreferences"
    /\ inboxProps.variant = "popover"
    /\ InboxSettled
    /\ ShouldRenderPreferencesDialog /\ ~isOpen

\* the settings button was clicked in the modal variant
C24_InlineInModal ==
    /\ lastEvent.kind = "openPreferences"
    /\ inboxProps.variant = "modal"
    /\ InboxSettled
    /\ ShouldRenderInlinePreferences /\ isOpen

\* the calls of getMeta whose response was applied to the state
AppliedMetaFetches == {f \in DOMAIN metaFetches : metaFetches[f].status = "resolved"}
LatestApplied == CHOOSE f \in AppliedMetaFetches : \A g \in AppliedMetaFetches : g <= f

\* C29: once a response of getMeta has been applied, meta is the response
\* to the latest call among those whose response was applied; a response
\* or a failure of an earlier call does not replace it.
C29_MetaFromLatestRequest ==
    AppliedMetaFetches # {} => meta = MetaResponse(LatestApplied)

\* the response to the mount-time call arrives after the response to the
\* refetch and is what Inbox shows
C29_StaleMetaOverwrites ==
    /\ Len(metaFetches) = 2
    /\ metaFetches[1] = MetaFetch("mount", TRUE, "resolved")
    /\ metaFetches[2] = MetaFetch("open", TRUE, "resolved")
    /\ InboxSettled /\ isOpen
    /\ meta = MetaResponse(1) /\ derivedMeta = MetaResponse(1)

\* the failure of the mount-time call arrives after the response to the
\* refetch and clears meta
C29_LateFailureClearsMeta ==
    /\ Len(metaFetches) = 2
    /\ metaFetches[1] = MetaFetch("mount", TRUE, "rejected")
    /\ metaFetches[2] = MetaFetch("open", TRUE, "resolved")
    /\ InboxSettled /\ isOpen
    /\ meta = JsNull /\ derivedMeta = JsNull

\* the views that are rendered
ShownViews ==
    {view \in {"inlinePreferences", "preferencesDialog",
               "inlineMessageDetails", "messageDetailsDialog"} :
        \/ view = "inlinePreferences" /\ ShouldRenderInlinePreferences
        \/ view = "preferencesDialog" /\ ShouldRenderPreferencesDialog
        \/ view = "inlineMessageDetails" /\ ShouldRenderInlineMessageDetails
        \/ view = "messageDetailsDialog" /\ ShouldRenderMessageDetailsDialog}

\* C30: at most one of inline preferences, preferences dialog, inline
\* message details and message-details dialog is rendered, the
\* preferences display and the message-details display are never both
\* set, and the message of the message-details view is never one without
\* a body or without a messageId.
C30_AtMostOneView ==
    /\ Cardinality(ShownViews) <= 1
    /\ ~(preferencesDisplay # "none" /\ messageDetails.display # "none")
    /\ messageDetails.display # "none" =>
          \E msg \in FeedMessages :
             /\ msg.messageId = messageDetails.messageId
             /\ msg.hasBody /\ Truthy(msg.messageId)
    /\ (lastEvent.kind = "messageSelect" /\ ~CanOpenDetails(lastEvent.message)) =>
          messageDetails.messageId # lastEvent.message.messageId

\* a message without a body was clicked in the modal variant and the
\* feed is still what the open container shows
C30_BodylessIgnored ==
    /\ lastEvent.kind = "messageSelect"
    /\ ~lastEvent.message.hasBody
    /\ inboxProps.variant = "modal"
    /\ isOpen /\ ShownViews = {}

\* a message was selected in the popover while the preferences dialog
\* was set: the message-details dialog is the one view
C30_Witness ==
    /\ lastEvent.kind = "messageSelect"
    /\ InboxSettled
    /\ ShownViews = {"messageDetailsDialog"}
    /\ preferencesDisplay = "none"

=============================================================================
